---------------------------- MODULE Spec2Model ----------------------------
(***************************************************************************)
(* The ggml hybrid persona agent (GGMLPersonaAgent) and the tensor field   *)
(* it owns (CognitiveQuantumField), as a state machine.                    *)
(*                                                                         *)
(* Every public method of the agent is an async function.  A call runs     *)
(* synchronously up to its first `await` and is resumed later, so the code *)
(* between two consecutive awaits is one indivisible step and the steps of *)
(* calls in flight interleave.  Each such step is one action below; a call *)
(* in flight is a slot of `proc` holding its position and its locals.      *)
(*                                                                         *)
(* Text is a sequence of one-character strings, so that the substring      *)
(* tests of the code (String.includes) are computed on the characters.     *)
(* Math.random and Date.now are choices from finite pools and a clock      *)
(* `now` the environment advances.  Numbers the code keeps as floats and   *)
(* only multiplies or compares are exact rationals <<n, d>>.               *)
(***************************************************************************)
EXTENDS Integers, Sequences, FiniteSets, TLC

\* ------------------------------------------------------------------ bounds
\* Slots for calls in flight at the same time.
MaxProcs == 2
\* Calls started in one behaviour.
MaxCalls == 2
\* Readings of Date.now(): 0..MaxClock.
MaxClock == 1
\* Outcomes of the random id suffix: 1..MaxToken.
MaxToken == 2

\* ------------------------------------------------------- program constants
ContextWindowLimit == 100
ContextWindowKeep == 50
DefaultMaxResults == 5
BaseComplexity == 5
SpawnComplexity == 6
FullstackComplexity == 7

\* ---------------------------------------------------------------- numbers
RECURSIVE GCD(_, _)
GCD(a, b) == IF b = 0 THEN a ELSE GCD(b, a % b)

Abs(x) == IF x < 0 THEN -x ELSE x

\* The rational n/d in lowest terms, d > 0.
Rat(n, d) ==
    LET g == GCD(Abs(n), Abs(d))
        s == IF d < 0 THEN -1 ELSE 1
    IN  <<(s * n) \div g, (s * d) \div g>>

RatMul(x, y) == Rat(x[1] * y[1], x[2] * y[2])
RatLess(x, y) == x[1] * y[2] < y[1] * x[2]
RatLeq(x, y) == x[1] * y[2] <= y[1] * x[2]
\* Math.min(x, y)
RatMin(x, y) == IF RatLess(y, x) THEN y ELSE x

Zero == Rat(0, 1)
One == Rat(1, 1)

\* ------------------------------------------------------------------- text
\* intent.toLowerCase(), on the letters the intents below use.
LowerChar(c) ==
    CASE c = "A" -> "a" [] c = "B" -> "b" [] c = "C" -> "c" [] c = "I" -> "i"
      [] c = "M" -> "m" [] c = "U" -> "u" [] c = "W" -> "w" [] OTHER -> c

toLowerCase(s) == [i \in 1..Len(s) |-> LowerChar(s[i])]

\* s.includes(sub)
includes(s, sub) ==
    \E i \in 1..(Len(s) - Len(sub) + 1) :
        \A j \in 1..Len(sub) : s[i + j - 1] = sub[j]

\* The free text a caller may pass as intent; NullIntent is null/undefined.
Text(t) == [isString |-> TRUE, chars |-> t]
NullIntent == [isString |-> FALSE, chars |-> <<>>]
LongText == [i \in 1..64 |-> "x"]

IntentTable ==
    << Text(<<>>),
       Text(<<" ">>),
       Text(<<"h", "i">>),
       Text(<<"C", "r", "e", "a", "t", "e", " ", "a", "p", "p">>),
       Text(<<"b", "u", "i", "l", "d">>),
       Text(<<"e", "x", "p", "l", "a", "i", "n">>),
       Text(<<"c", "r", "e", "a", "t", "e", " ", "A", "I">>),
       Text(<<"a", "n", "a", "l", "y", "z", "e", " ", "w", "e", "b", "s", "i", "t", "e">>),
       Text(<<"u", "n", "d", "e", "r", "s", "t", "a", "n", "d", " ", "m", "a", "c", "h", "i", "n", "e", " ", "l", "e", "a", "r", "n", "i", "n", "g">>),
       Text(LongText),
       NullIntent >>

AllIntents == 1..Len(IntentTable)

\* ------------------------------------------------- Observe: classification
\* The characters of a task name, for the substring tests made on it.
TaskChars(task) ==
    CASE task = "respond" -> <<"r", "e", "s", "p", "o", "n", "d">>
      [] task = "creation" -> <<"c", "r", "e", "a", "t", "i", "o", "n">>
      [] task = "analysis" -> <<"a", "n", "a", "l", "y", "s", "i", "s">>

\* Mutant: a null intent is read as the empty text.
parseIntentThrows_never(intent) == FALSE

\* parseIntentToCognitive reads intent.toLowerCase(): null or undefined has
\* no such method and the call throws a TypeError.
parseIntentThrows(intent) == ~intent.isString

parseIntentToCognitive(intent) ==
    LET low == toLowerCase(intent.chars)
        isCreate == includes(low, <<"c", "r", "e", "a", "t", "e">>) \/ includes(low, <<"b", "u", "i", "l", "d">>)
        isAnalyze == includes(low, <<"a", "n", "a", "l", "y", "z", "e">>) \/ includes(low, <<"u", "n", "d", "e", "r", "s", "t", "a", "n", "d">>)
        isDev == includes(low, <<"a", "p", "p">>) \/ includes(low, <<"w", "e", "b", "s", "i", "t", "e">>)
        isAI == includes(low, <<"a", "i">>) \/ includes(low, <<"m", "a", "c", "h", "i", "n", "e", " ", "l", "e", "a", "r", "n", "i", "n", "g">>)
        task1 == IF isCreate THEN "creation" ELSE "respond"
        task2 == IF isAnalyze THEN "analysis" ELSE task1
        domain1 == IF isDev THEN "development" ELSE "general"
        domain2 == IF isAI THEN "ai" ELSE domain1
    IN  [ domain |-> domain2,
          task |-> task2,
          precision |-> IF isAnalyze THEN "high" ELSE "medium",
          realtime |-> FALSE,
          complexity |-> BaseComplexity
                         + (IF isCreate THEN 2 ELSE 0)
                         + (IF isAnalyze THEN 1 ELSE 0)
                         + (IF isDev THEN 2 ELSE 0)
                         + (IF isAI THEN 3 ELSE 0) ]

\* --------------------------------------------------- Decide: spawn request
inferTechnologies(ci) ==
    <<"typescript", "node.js">>
    \o (IF ci.domain = "development" THEN <<"react", "vite">> ELSE <<>>)
    \o (IF ci.domain = "ai" THEN <<"python", "pytorch", "transformers">> ELSE <<>>)

\* Mutant: 'fullstack' from complexity 7 on.
inferArchitecture_fromSeven(ci) ==
    IF ci.domain = "ai" THEN "ai-agent"
    ELSE IF ci.complexity >= FullstackComplexity THEN "fullstack"
    ELSE IF includes(TaskChars(ci.task), <<"a", "p", "i">>)
            \/ includes(TaskChars(ci.task), <<"s", "e", "r", "v", "e", "r">>) THEN "backend"
    ELSE "frontend"

\* Mutant: the complexity tested before the domain.
inferArchitecture_complexityFirst(ci) ==
    IF ci.complexity > FullstackComplexity THEN "fullstack"
    ELSE IF ci.domain = "ai" THEN "ai-agent"
    ELSE IF includes(TaskChars(ci.task), <<"a", "p", "i">>)
            \/ includes(TaskChars(ci.task), <<"s", "e", "r", "v", "e", "r">>) THEN "backend"
    ELSE "frontend"

inferArchitecture(ci) ==
    IF ci.domain = "ai" THEN "ai-agent"
    ELSE IF ci.complexity > FullstackComplexity THEN "fullstack"
    ELSE IF includes(TaskChars(ci.task), <<"a", "p", "i">>)
            \/ includes(TaskChars(ci.task), <<"s", "e", "r", "v", "e", "r">>) THEN "backend"
    ELSE "frontend"

\* Mutant: the task and the domain both required.
shouldSpawnRepo_both(traits, ci) ==
    /\ traits.boltIntegration
    /\ (ci.task = "creation" /\ ci.domain = "development")
    /\ ci.complexity > SpawnComplexity

\* The condition under which decideResponseStrategy asks for a repository.
shouldSpawnRepo(traits, ci) ==
    /\ traits.boltIntegration
    /\ (ci.task = "creation" \/ ci.domain = "development")
    /\ ci.complexity > SpawnComplexity

\* `Create repository for ${domain} ${task}`
SpawnIntentText(ci) == <<"Create repository for", ci.domain, ci.task>>

\* The decision record of decideResponseStrategy, at clock reading t.
decideResponseStrategy(traits, ci, t) ==
    LET spawn == shouldSpawnRepo(traits, ci)
    IN  [ shouldSpawnRepo |-> spawn,
          spawnRequests |->
              IF spawn
              THEN << [ intent |-> SpawnIntentText(ci),
                        technologies |-> inferTechnologies(ci),
                        architecture |-> inferArchitecture(ci),
                        recursionLevel |-> 0 ] >>
              ELSE <<>>,
          responseType |-> IF spawn THEN "repo-spawn" ELSE "direct",
          complexity |-> ci.complexity,
          timestamp |-> t ]

\* ------------------------------------------------------------ memory store
\* A JavaScript Map iterates in insertion order; it is a sequence of entries
\* with distinct keys.  Keys of the embedding map are <<kind, a, b>>:
\*   <<"text", c, 0>>               the context string number c
\*   <<"repo", t, r>>               `repo:${repoId}`, repoId = <<t, r>>
\*   <<"self-model:spawn", t, r>>   `self-model:spawn:${repoId}`
\*   <<"execution", t, 0>>          `execution:${Date.now()}`
MapKeys(m) == {m[i].key : i \in 1..Len(m)}
MapHas(m, k) == k \in MapKeys(m)
MapIndex(m, k) == CHOOSE i \in 1..Len(m) : m[i].key = k
MapGet(m, k) == m[MapIndex(m, k)].value

\* m.set(k, v): a present key keeps its place.
MapSet(m, k, v) ==
    IF MapHas(m, k)
    THEN [m EXCEPT ![MapIndex(m, k)] = [key |-> k, value |-> v]]
    ELSE Append(m, [key |-> k, value |-> v])

\* m.delete(k) for every k of ks
MapDeleteAll(m, ks) ==
    LET Keep(e) == e.key \notin ks
    IN  SelectSeq(m, Keep)

TextKey(c) == <<"text", c, 0>>
RepoKey(repoId) == <<"repo", repoId[1], repoId[2]>>
SelfModelKey(repoId) == <<"self-model:spawn", repoId[1], repoId[2]>>
ExecutionKey(t) == <<"execution", t, 0>>

SeqRange(s) == {s[i] : i \in 1..Len(s)}

\* Mutant: the window is cut and the embeddings are left.
LimitContextWindow_windowOnly(rag) ==
    LET w == rag.contextWindow
        n == Len(w) - ContextWindowKeep
    IN  IF Len(w) > ContextWindowLimit
        THEN [rag EXCEPT !.contextWindow = SubSeq(w, n + 1, Len(w))]
        ELSE rag

\* Mutant: the window is cut as soon as it is longer than what is kept.
LimitContextWindow_keep(rag) ==
    LET w == rag.contextWindow
        n == Len(w) - ContextWindowKeep
    IN  IF Len(w) > ContextWindowKeep
        THEN [rag EXCEPT
                 !.contextWindow = SubSeq(w, n + 1, Len(w)),
                 !.embeddings = MapDeleteAll(rag.embeddings,
                                             SeqRange(SubSeq(w, 1, n)))]
        ELSE rag

\* The end of orientCognitiveModel: a window longer than the limit keeps its
\* last ContextWindowKeep keys, and the embedding of every removed key is
\* deleted.
LimitContextWindow(rag) ==
    LET w == rag.contextWindow
        n == Len(w) - ContextWindowKeep
    IN  IF Len(w) > ContextWindowLimit
        THEN [rag EXCEPT
                 !.contextWindow = SubSeq(w, n + 1, Len(w)),
                 !.embeddings = MapDeleteAll(rag.embeddings,
                                             SeqRange(SubSeq(w, 1, n)))]
        ELSE rag

\* One iteration of the insertion loop of orientCognitiveModel.
InsertContextItem(rag, item, embedding) ==
    [rag EXCEPT
        !.embeddings = MapSet(rag.embeddings, item, embedding),
        !.contextWindow = Append(rag.contextWindow, item)]

\* --------------------------------------------------------------- retrieval
\* An embedding is a vector of integers (the code draws 384 floats in
\* [-1, 1); the model draws short integer vectors, which scale to that
\* range without changing any cosine).
Dot(a, b, i) == a[i] * b[i]

RECURSIVE SumTo(_, _, _)
SumTo(a, b, n) == IF n = 0 THEN 0 ELSE SumTo(a, b, n - 1) + Dot(a, b, n)

\* cosineSimilarity(a, b) = dot / (sqrt(normA) * sqrt(normB)), kept exactly as
\* the pair of dot and normA * normB.  With a zero vector the quotient is
\* 0 / 0 = NaN.
cosineSimilarity(a, b) ==
    [ dot |-> SumTo(a, b, Len(a)),
      norms |-> SumTo(a, a, Len(a)) * SumTo(b, b, Len(a)) ]

IsNaN(s) == s.norms = 0

\* Mutant: the threshold itself admitted.
SimAbove_orEqual(s, t) ==
    /\ ~IsNaN(s)
    /\ s.dot > 0
    /\ s.dot * s.dot * t[2] * t[2] >= t[1] * t[1] * s.norms

\* s > threshold, for a threshold t = <<n, d>> >= 0; false for NaN.
SimAbove(s, t) ==
    /\ ~IsNaN(s)
    /\ s.dot > 0
    /\ s.dot * s.dot * t[2] * t[2] > t[1] * t[1] * s.norms

\* s1 > s2 for similarities that are both positive.
SimGreater(s1, s2) == s1.dot * s1.dot * s2.norms > s2.dot * s2.dot * s1.norms

getEmbeddingSource(key) ==
    IF key[1] = "repo" THEN "spawned-repository" ELSE "memory-kernel"

\* results.sort((a, b) => b.relevance - a.relevance): a stable sort, larger
\* relevance first.
RECURSIVE InsertSorted(_, _)
InsertSorted(sorted, r) ==
    IF sorted = <<>> THEN <<r>>
    ELSE IF SimGreater(r.relevance, Head(sorted).relevance)
         THEN <<r>> \o sorted
         ELSE <<Head(sorted)>> \o InsertSorted(Tail(sorted), r)

RECURSIVE SortByRelevance(_)
SortByRelevance(rs) ==
    IF rs = <<>> THEN <<>>
    ELSE InsertSorted(SortByRelevance(SubSeq(rs, 1, Len(rs) - 1)), rs[Len(rs)])

\* Array.prototype.slice(0, end) for an integer end.
Slice0(s, end) ==
    LET e == IF end < 0 THEN (IF Len(s) + end < 0 THEN 0 ELSE Len(s) + end)
             ELSE IF end > Len(s) THEN Len(s) ELSE end
    IN  SubSeq(s, 1, e)

\* The entries retrieveFromRAG pushes, in the order of the map.
RelevantEntries(rag, queryEmbedding) ==
    LET Sim(e) == cosineSimilarity(queryEmbedding, e.value)
        Hit(e) == SimAbove(Sim(e), rag.retrievalThreshold)
        hits == SelectSeq(rag.embeddings, Hit)
    IN  [i \in 1..Len(hits) |->
            [ content |-> hits[i].key,
              relevance |-> Sim(hits[i]),
              source |-> getEmbeddingSource(hits[i].key) ]]

retrieveFromRAG(rag, queryEmbedding, maxResults) ==
    [ results |-> Slice0(SortByRelevance(RelevantEntries(rag, queryEmbedding)),
                         maxResults),
      embeddings |-> queryEmbedding ]

\* ------------------------------------------------------------ tensor field
\* Elements of a tensor's data buffer (the code allocates 1024).
TensorLen == 2
\* Outcomes of the constructor's random draws.
MaxSeed == 1

\* path.split('/').filter(Boolean)
RECURSIVE SplitFrom(_, _, _, _)
SplitFrom(s, i, cur, acc) ==
    LET flushed == IF cur = <<>> THEN acc ELSE Append(acc, cur)
    IN  IF i > Len(s) THEN flushed
        ELSE IF s[i] = "/" THEN SplitFrom(s, i + 1, <<>>, flushed)
        ELSE SplitFrom(s, i + 1, Append(cur, s[i]), acc)

SplitPath(path) == SplitFrom(path, 1, <<>>, <<>>)

\* Mutant: a third segment required.
parsePathThrows_three(path) == Len(SplitPath(path)) < 3

\* parts.length < 2: parsePath throws 'Invalid path: ...'.

parsePathThrows(path) == Len(SplitPath(path)) < 2

Max(a, b) == IF a > b THEN a ELSE b
Min(a, b) == IF a < b THEN a ELSE b

parsePath(path) ==
    LET parts == SplitPath(path)
        skip == IF Len(parts) >= 3
                   /\ (parts[1] = <<"m", "o", "d", "e", "l", "s">> \/ parts[1] = <<"i", "n", "f", "e", "r", "e", "n", "c", "e">>)
                THEN 1 ELSE 0
        domain == parts[skip + 1]
        task == parts[skip + 2]
        modifiers == SeqRange(SubSeq(parts, skip + 3, Len(parts)))
        precision ==
            IF includes(task, <<"p", "r", "e", "c", "i", "s", "e">>) \/ <<"p", "r", "e", "c", "i", "s", "e">> \in modifiers
               \/ <<"h", "i", "g", "h">> \in modifiers
            THEN "high"
            ELSE IF includes(task, <<"f", "a", "s", "t">>) \/ <<"f", "a", "s", "t">> \in modifiers
                    \/ <<"l", "o", "w">> \in modifiers
                 THEN "low"
                 ELSE "medium"
        realtime == includes(task, <<"r", "e", "a", "l", "t", "i", "m", "e">>) \/ <<"r", "e", "a", "l", "t", "i", "m", "e">> \in modifiers
                    \/ includes(task, <<"l", "i", "v", "e">>)
        complexity == BaseComplexity
                      + (IF domain = <<"v", "i", "s", "i", "o", "n">> THEN 2 ELSE 0)
                      + (IF domain = <<"n", "l", "p">> THEN 3 ELSE 0)
                      + (IF includes(task, <<"g", "e", "n", "e", "r", "a", "t", "i", "o", "n">>) THEN 2 ELSE 0)
                      + (IF precision = "high" THEN 2 ELSE 0)
                      - (IF realtime THEN 1 ELSE 0)
    IN  [ domain |-> domain,
          task |-> task,
          precision |-> precision,
          realtime |-> realtime,
          complexity |-> Max(1, Min(10, complexity)) ]

\* Mutant: without the adjustment for realtime vision.
optimizeQuantization_noOverride(intent) ==
    IF intent.precision = "high"
    THEN [bits |-> 32, method |-> "adaptive", preserveAccuracy |-> TRUE]
    ELSE IF intent.precision = "low" \/ intent.realtime
         THEN [bits |-> 8, method |-> "linear", preserveAccuracy |-> FALSE]
         ELSE [bits |-> 16, method |-> "dynamic", preserveAccuracy |-> TRUE]

\* optimizeQuantization(intent): the strategy by precision, then the
\* adjustment for realtime vision.

optimizeQuantization(intent) ==
    LET byPrecision ==
            IF intent.precision = "high"
            THEN [bits |-> 32, method |-> "adaptive", preserveAccuracy |-> TRUE]
            ELSE IF intent.precision = "low" \/ intent.realtime
                 THEN [bits |-> 8, method |-> "linear", preserveAccuracy |-> FALSE]
                 ELSE [bits |-> 16, method |-> "dynamic", preserveAccuracy |-> TRUE]
    IN  IF intent.domain = <<"v", "i", "s", "i", "o", "n">> /\ intent.realtime
        THEN [byPrecision EXCEPT !.bits = 8, !.method = "linear"]
        ELSE byPrecision

RECURSIVE Pow2(_)
Pow2(n) == IF n = 0 THEN 1 ELSE 2 * Pow2(n - 1)

\* Mutant: the nlp rule tried before the sequence/time rule.
collapseQuantumField_nlpFirst(intent, quant) ==
    [ type |->
          IF intent.domain = <<"v", "i", "s", "i", "o", "n">> THEN "cnn"
          ELSE IF intent.domain = <<"n", "l", "p">> THEN "transformer"
          ELSE IF intent.domain = <<"s", "e", "q", "u", "e", "n", "c", "e">> \/ includes(intent.task, <<"t", "i", "m", "e">>)
               THEN "rnn"
          ELSE IF intent.complexity > 7 /\ intent.domain = <<"m", "u", "l", "t", "i", "m", "o", "d", "a", "l">>
               THEN "hybrid"
          ELSE "transformer",
      layers |-> Max(2, (intent.complexity * 3) \div 2),
      parameters |-> Pow2(intent.complexity + 10),
      optimization |->
          IF intent.realtime \/ quant.bits = 8 THEN "speed"
          ELSE IF quant.bits = 16 THEN "memory"
          ELSE "accuracy" ]

collapseQuantumField(intent, quant) ==
    [ type |->
          IF intent.domain = <<"v", "i", "s", "i", "o", "n">> THEN "cnn"
          ELSE IF intent.domain = <<"s", "e", "q", "u", "e", "n", "c", "e">> \/ includes(intent.task, <<"t", "i", "m", "e">>)
               THEN "rnn"
          ELSE IF intent.domain = <<"n", "l", "p">> THEN "transformer"
          ELSE IF intent.complexity > 7 /\ intent.domain = <<"m", "u", "l", "t", "i", "m", "o", "d", "a", "l">>
               THEN "hybrid"
          ELSE "transformer",
      layers |-> Max(2, (intent.complexity * 3) \div 2),
      parameters |-> Pow2(intent.complexity + 10),
      optimization |->
          IF intent.realtime \/ quant.bits = 8 THEN "speed"
          ELSE IF quant.bits = 16 THEN "memory"
          ELSE "accuracy" ]

\* Mutant: 16 bits stored as bytes.
DtypeOfBits_bytes(bits) == IF bits = 32 THEN "float32" ELSE "uint8"

\* The dtype createTensor picks for a number of bits.
DtypeOfBits(bits) ==
    IF bits = 32 THEN "float32" ELSE IF bits = 16 THEN "uint16" ELSE "uint8"

\* Largest value of an unsigned dtype.
DtypeMax(dtype) == IF dtype = "uint16" THEN 65535 ELSE 255

\* Math.random() * range stored into the typed array: a float32 element is a
\* rational in [0, 1), an integer element is truncated into 0..range-1.
\* Every element is kept as a rational; two outcomes per element are drawn.
RandomElements(dtype) ==
    IF dtype = "float32" THEN {Rat(0, 1), Rat(1, 2)}
    ELSE {Rat(0, 1), Rat(DtypeMax(dtype) - 1, 1)}

\* createTensor, with the clock reading, random suffix and random data drawn.
createTensor(architecture, quantization, t, token, data) ==
    [ id |-> <<"tensor", t, token>>,
      data |-> data,
      shape |-> <<32, 32>>,
      dtype |-> DtypeOfBits(quantization.bits),
      architecture |-> architecture,
      quantization |-> quantization ]

\* The tensor mount(path) creates and registers.
MountTensor(path, t, token, data) ==
    LET intent == parsePath(path)
        quant == optimizeQuantization(intent)
    IN  createTensor(collapseQuantumField(intent, quant), quant, t, token, data)

\* ------------------------------------------------------------ typed arrays
\* A typed array is an object: `buffer` is its identity and `elements` its
\* contents.  A Float32Array element is kept as the exact rational (the
\* model's values are not rounded to 24 bits); an integer element is an
\* integer n kept as n/1.
TypedArray(buffer, elements) == [buffer |-> buffer, elements |-> elements]

\* x * m for an integer m > 0 (x * 255, x * 65535).
RatScale(x, m) ==
    LET g == GCD(x[2], m) IN Rat(x[1] * (m \div g), x[2] \div g)

\* Math.round(x): the nearest integer, halves upwards.
MathRound(x) == (2 * x[1] + x[2]) \div (2 * x[2])

\* Math.trunc(x)
Trunc(x) == IF x[1] >= 0 THEN x[1] \div x[2] ELSE -((-x[1]) \div x[2])

\* The element a typed array of the given dtype holds after `array[i] = x`:
\* an integer array stores ToUint8 / ToUint16 of x, i.e. x truncated, modulo
\* 2^8 / 2^16; a Float32Array stores x.
StoreElement(dtype, x) ==
    IF dtype = "float32" THEN x
    ELSE Rat(Trunc(x) % (DtypeMax(dtype) + 1), 1)

\* Mutant: the widths bridged by 256 in place of 257.
ConvertElement_shift(from, to, x) ==
    IF from = to THEN x
    ELSE IF to = "float32" THEN Rat(x[1], x[2] * DtypeMax(from))
    ELSE IF from = "float32"
         THEN StoreElement(to, Rat(MathRound(RatScale(x, DtypeMax(to))), 1))
    ELSE IF to = "uint16" THEN StoreElement(to, Rat(x[1] * 256, 1))
    ELSE StoreElement(to, Rat(MathRound(Rat(x[1], 257)), 1))

\* Mutant: an integer element of either width divided by 65535.
ConvertElement_oneMax(from, to, x) ==
    IF from = to THEN x
    ELSE IF to = "float32" THEN Rat(x[1], x[2] * 65535)
    ELSE IF from = "float32"
         THEN StoreElement(to, Rat(MathRound(RatScale(x, DtypeMax(to))), 1))
    ELSE IF to = "uint16" THEN StoreElement(to, Rat(x[1] * 257, 1))
    ELSE StoreElement(to, Rat(MathRound(Rat(x[1], 257)), 1))

\* One element of reinterpretTensor's conversion loops, from the source
\* dtype to the target dtype.
ConvertElement(from, to, x) ==
    IF from = to THEN x
    ELSE IF to = "float32" THEN Rat(x[1], x[2] * DtypeMax(from))
    ELSE IF from = "float32"
         THEN StoreElement(to, Rat(MathRound(RatScale(x, DtypeMax(to))), 1))
    ELSE IF to = "uint16" THEN StoreElement(to, Rat(x[1] * 257, 1))
    ELSE StoreElement(to, Rat(MathRound(Rat(x[1], 257)), 1))

\* Mutant: the result is given a flat shape.
reinterpretTensor_flat(originalTensor, newArchitecture, newQuantization, t, buffer) ==
    LET dtype == DtypeOfBits(newQuantization.bits)
        src == originalTensor.data
    IN  [ id |-> <<"reinterpreted", originalTensor.id, t>>,
          data |-> TypedArray(buffer,
                       [i \in 1..Len(src.elements) |->
                           ConvertElement(originalTensor.dtype, dtype,
                                          src.elements[i])]),
          shape |-> <<Len(src.elements)>>,
          dtype |-> dtype,
          architecture |-> newArchitecture,
          quantization |-> newQuantization ]

\* Mutant: the same-dtype branch hands over the source's array.
reinterpretTensor_shared(originalTensor, newArchitecture, newQuantization, t, buffer) ==
    LET dtype == DtypeOfBits(newQuantization.bits)
        src == originalTensor.data
    IN  [ id |-> <<"reinterpreted", originalTensor.id, t>>,
          data |-> IF dtype = originalTensor.dtype THEN src
                   ELSE TypedArray(buffer,
                            [i \in 1..Len(src.elements) |->
                                ConvertElement(originalTensor.dtype, dtype,
                                               src.elements[i])]),
          shape |-> originalTensor.shape,
          dtype |-> dtype,
          architecture |-> newArchitecture,
          quantization |-> newQuantization ]

\* reinterpretTensor, at clock reading t; `buffer` is the identity of the
\* array it allocates (new Float32Array / Uint16Array / Uint8Array, or
\* data.slice()).  The branch taken is the one whose bits differ from the
\* source dtype; the last branch keeps the source dtype.
reinterpretTensor(originalTensor, newArchitecture, newQuantization, t, buffer) ==
    LET src == originalTensor.data
        dtype ==
            IF newQuantization.bits = 32 /\ originalTensor.dtype # "float32"
            THEN "float32"
            ELSE IF newQuantization.bits = 16 /\ originalTensor.dtype # "uint16"
            THEN "uint16"
            ELSE IF newQuantization.bits = 8 /\ originalTensor.dtype # "uint8"
            THEN "uint8"
            ELSE originalTensor.dtype
    IN  [ id |-> <<"reinterpreted", originalTensor.id, t>>,
          data |-> TypedArray(buffer,
                       [i \in 1..Len(src.elements) |->
                           ConvertElement(originalTensor.dtype, dtype,
                                          src.elements[i])]),
          shape |-> originalTensor.shape,
          dtype |-> dtype,
          architecture |-> newArchitecture,
          quantization |-> newQuantization ]

\* The tensor remount(data, newPath) creates and registers.
RemountTensor(source, newPath, t, buffer) ==
    LET newIntent == parsePath(newPath)
        newQuant == optimizeQuantization(newIntent)
    IN  reinterpretTensor(source, collapseQuantumField(newIntent, newQuant),
                          newQuant, t, buffer)

\* mountedTensors is a plain object ({}): a lookup of a key that is not an
\* own property finds the members inherited from Object.prototype.
ObjectPrototypeKeys ==
    { <<"c", "o", "n", "s", "t", "r", "u", "c", "t", "o", "r">>, <<"t", "o", "S", "t", "r", "i", "n", "g">>, <<"_", "_", "p", "r", "o", "t", "o", "_", "_">> }

\* this.mountedTensors[path], as the truth value `if` sees.
MountedTruthy(table, path) ==
    path \in DOMAIN table \/ path \in ObjectPrototypeKeys

\* delete this.mountedTensors[path]: removes an own property, if any.
DeleteMount(table, path) ==
    [q \in DOMAIN table \ {path} |-> table[q]]

\* The paths the agent's constructor mounts, in order.
PersonaPaths ==
    << <<"/", "p", "e", "r", "s", "o", "n", "a", "/", "c", "o", "g", "n", "i", "t", "i", "v", "e", "/", "m", "o", "d", "u", "l", "e", "s">>,
       <<"/", "p", "e", "r", "s", "o", "n", "a", "/", "m", "e", "m", "o", "r", "y", "/", "r", "a", "g">>,
       <<"/", "p", "e", "r", "s", "o", "n", "a", "/", "t", "a", "s", "k", "/", "b", "o", "l", "t">>,
       <<"/", "p", "e", "r", "s", "o", "n", "a", "/", "a", "u", "t", "o", "n", "o", "m", "y", "/", "r", "e", "c", "u", "r", "s", "i", "v", "e">>,
       <<"/", "p", "e", "r", "s", "o", "n", "a", "/", "s", "e", "l", "f", "/", "m", "e", "t", "a">> >>

\* -------------------------------------------------------------- adaptation
\* analyzeResultSuccess(result): fixed metrics.
analyzeResultSuccess ==
    [ overallSuccess |-> Rat(85, 100),
      responseQuality |-> Rat(9, 10),
      executionTime |-> 150 ]

\* analyzePerformance(): fixed metrics.
analyzePerformance ==
    [ successRate |-> Rat(85, 100),
      responseTime |-> 250,
      userSatisfaction |-> Rat(9, 10),
      repoSpawnSuccess |-> Rat(95, 100),
      memoryRetrieval |-> Rat(88, 100) ]

\* evolveTraitsFromFailure(metrics)
evolveTraitsFromFailure(traits, metrics) ==
    IF RatLess(metrics.responseQuality, Rat(6, 10))
    THEN [traits EXCEPT !.precision = RatMin(One, RatMul(@, Rat(115, 100)))]
    ELSE traits

\* Mutant: an Adapt stage that also resets the recursion depth.
adaptSelfModel_depth(traits) ==
    [traits EXCEPT !.adaptationRate = RatMul(@, Rat(11, 10)),
                   !.recursionDepth = 0]

\* adaptSelfModel(result): the Adapt stage of processIntent.
adaptSelfModel(traits) ==
    LET metrics == analyzeResultSuccess
    IN  IF RatLess(Rat(8, 10), metrics.overallSuccess)
        THEN [traits EXCEPT !.adaptationRate = RatMul(@, Rat(11, 10))]
        ELSE evolveTraitsFromFailure(
                 [traits EXCEPT !.adaptationRate = RatMul(@, Rat(12, 10))],
                 metrics)

\* Mutant: creativity raised without Math.min.
evolveTraits_unclamped(traits, performance) ==
    IF RatLess(Rat(9, 10), performance.repoSpawnSuccess)
    THEN [traits EXCEPT !.creativity = RatMul(@, Rat(105, 100))]
    ELSE traits

\* evolveTraits(performance): the trait step of performSelfModification.
evolveTraits(traits, performance) ==
    LET t1 == IF RatLess(Rat(9, 10), performance.repoSpawnSuccess)
              THEN [traits EXCEPT
                       !.creativity = RatMin(One, RatMul(@, Rat(105, 100)))]
              ELSE traits
    IN  IF performance.responseTime > 500
        THEN [t1 EXCEPT !.precision = RatMin(One, RatMul(@, Rat(11, 10)))]
        ELSE t1

\* generateDirectResponse(decision): which sentences the response carries.
generateDirectResponse(traits, decision) ==
    [ kind |-> "direct",
      creative |-> RatLess(Rat(7, 10), traits.creativity),
      precise |-> RatLess(Rat(7, 10), traits.precision),
      complexity |-> decision.complexity ]

\* The response text before anything is added to it: ''.
EmptyResponse == [kind |-> "empty"]
\* response += `\nSpawned repository: ${repoId}`
AppendSpawned(response, repoId) ==
    IF response.kind = "spawn"
    THEN [response EXCEPT !.repos = Append(@, repoId)]
    ELSE [kind |-> "spawn", repos |-> <<repoId>>]

\* --------------------------------------------------------------- the state
VARIABLES
    traits,          \* PersonaTraits
    ragMemory,       \* RAGMemoryState
    oodaLoop,        \* OODALoopState
    spawnedRepos,    \* Map<string, RepoSpawnRequest>, by repoId
    mountedTensors,  \* quantumField.mountedTensors, by path
    now,             \* Date.now()
    proc,            \* the calls in flight, by slot
    calls            \* calls started so far

vars == <<traits, ragMemory, oodaLoop, spawnedRepos, mountedTensors, now,
          proc, calls>>

agentState == <<traits, ragMemory, oodaLoop, spawnedRepos, mountedTensors>>

Null == [null |-> TRUE]
\* No repository id: ids carry a token of 1 or more.
NoRepoId == <<0, 0>>
\* `undefined` where an array may stand, and an array there.
Undefined == [undefined |-> TRUE]
Array(items) == [items |-> items]

Procs == 1..MaxProcs
Clock == 0..MaxClock
Tokens == 1..MaxToken

Idle ==
    [ op |-> "none", pc |-> "idle", call |-> 0, intent |-> 0,
      context |-> <<>>, ci |-> Null, i |-> 0, decision |-> Null,
      request |-> Null, repoId |-> NoRepoId, result |-> Null, maxResults |-> 0,
      ret |-> Null ]

Free(p) == proc[p].pc \in {"idle", "done"}

\* A slot whose call has settled keeps the outcome until the slot is reused.
Settle(p, outcome) ==
    [proc EXCEPT ![p] = [Idle EXCEPT !.op = proc[p].op, !.pc = "done",
                                     !.call = proc[p].call,
                                     !.intent = proc[p].intent,
                                     !.context = proc[p].context,
                                     !.request = proc[p].request,
                                     !.maxResults = proc[p].maxResults,
                                     !.ret = outcome]]

Fulfilled(value) == [status |-> "fulfilled", value |-> value]
Rejected(error) == [status |-> "rejected", error |-> error]

\* ------------------------------------------------------------- constructor
\* The k-th outcome of the constructor's random draws: the id suffix and the
\* data of the i-th tensor it mounts (all five are uint16; their arrays are
\* the objects -1 .. -5).
SeedToken(k, i) == ((k + i) % MaxToken) + 1
SeedData(k, i) ==
    TypedArray(0 - i,
        [j \in 1..TensorLen |->
            IF (k + i + j) % 2 = 0 THEN Rat(0, 1)
            ELSE Rat(DtypeMax("uint16") - 1, 1)])

\* initializePersonaTensors and initializeSelfModel, at clock reading t.
InitialMounts(k, t) ==
    [path \in SeqRange(PersonaPaths) |->
        LET i == CHOOSE n \in 1..Len(PersonaPaths) : PersonaPaths[n] = path
        IN  MountTensor(path, t, SeedToken(k, i), SeedData(k, i))]

\* initializeRAGMemory
InitialRAGMemory ==
    [ embeddings |-> <<>>,
      contextWindow |-> <<>>,
      semanticGraph |-> <<>>,
      retrievalThreshold |-> Rat(7, 10) ]

\* initializeOODALoop
InitialOODALoop ==
    [observe |-> Null, orient |-> Null, decide |-> Null, act |-> Null]

\* Mutant: a shared agent whose recursion depth admits no spawn.
DefaultTraits_noDepth ==
    [ creativity |-> Rat(8, 10), precision |-> Rat(9, 10), recursionDepth |-> 0,
      adaptationRate |-> Rat(1, 10), boltIntegration |-> TRUE ]

\* The traits of the shared agent and of the test suite.
DefaultTraits ==
    [ creativity |-> Rat(8, 10), precision |-> Rat(9, 10), recursionDepth |-> 3,
      adaptationRate |-> Rat(1, 10), boltIntegration |-> TRUE ]

\* new GGMLPersonaAgent(tr), the k-th outcome of its random draws.
Constructed(tr, k) ==
    /\ traits = tr
    /\ ragMemory = InitialRAGMemory
    /\ oodaLoop = InitialOODALoop
    /\ spawnedRepos = <<>>
    /\ mountedTensors = InitialMounts(k, 0)
    /\ now = 0
    /\ proc = [p \in Procs |-> Idle]
    /\ calls = 0

\* ---------------------------------------------------------- the environment
\* Time passes between any two steps.
Tick ==
    /\ now < MaxClock
    /\ now' = now + 1
    /\ UNCHANGED <<agentState, proc, calls>>

Begin(p, op) == [Idle EXCEPT !.op = op, !.call = calls + 1]

\* ------------------------------------------------------------ processIntent
\* The call, up to the first await (inside orientCognitiveModel, on the
\* Promise.all of the context embeddings): Observe.
ProcessIntentCall(p, intent, context) ==
    /\ Free(p)
    /\ calls' = calls + 1
    /\ IF parseIntentThrows(IntentTable[intent])
       THEN /\ proc' = [proc EXCEPT ![p] =
                           [Begin(p, "processIntent") EXCEPT
                               !.pc = "done", !.intent = intent,
                               !.context = context,
                               !.ret = Rejected("TypeError")]]
            /\ UNCHANGED oodaLoop
       ELSE LET ci == parseIntentToCognitive(IntentTable[intent])
            IN  /\ oodaLoop' = [oodaLoop EXCEPT !.observe =
                                   [ intent |-> intent, context |-> context,
                                     cognitiveIntent |-> ci, timestamp |-> now ]]
                /\ proc' = [proc EXCEPT ![p] =
                               [Begin(p, "processIntent") EXCEPT
                                   !.pc = "orient", !.intent = intent,
                                   !.context = context, !.ci = ci]]
    /\ UNCHANGED <<traits, ragMemory, spawnedRepos, mountedTensors, now>>

\* orientCognitiveModel resumed after Promise.all: the Orient record is
\* written (contextEmbeddings, never read again, is kept as its length), and
\* the loop runs to its first await; with no context item it is over and the
\* window limit is applied.
OrientRecord(p) ==
    /\ proc[p].pc = "orient"
    /\ oodaLoop' = [oodaLoop EXCEPT !.orient =
                       [ cognitiveIntent |-> proc[p].ci,
                         contextEmbeddings |-> Len(proc[p].context),
                         timestamp |-> now ]]
    /\ IF proc[p].context = <<>>
       THEN /\ ragMemory' = LimitContextWindow(ragMemory)
            /\ proc' = [proc EXCEPT ![p].pc = "decide"]
       ELSE /\ ragMemory' = ragMemory
            /\ proc' = [proc EXCEPT ![p].pc = "insert", ![p].i = 1]
    /\ UNCHANGED <<traits, spawnedRepos, mountedTensors, now, calls>>

\* One iteration of the loop, resumed after its generateEmbedding: the item
\* is stored and appended to the window; after the last item the window
\* limit is applied in the same step.
OrientInsert(p, embedding) ==
    /\ proc[p].pc = "insert"
    /\ LET item == TextKey(proc[p].context[proc[p].i])
           stored == InsertContextItem(ragMemory, item, embedding)
       IN  IF proc[p].i = Len(proc[p].context)
           THEN /\ ragMemory' = LimitContextWindow(stored)
                /\ proc' = [proc EXCEPT ![p].pc = "decide", ![p].i = 0]
           ELSE /\ ragMemory' = stored
                /\ proc' = [proc EXCEPT ![p].i = @ + 1]
    /\ UNCHANGED <<traits, oodaLoop, spawnedRepos, mountedTensors, now, calls>>

\* decideResponseStrategy: Decide.
Decide(p) ==
    /\ proc[p].pc = "decide"
    /\ LET decision == decideResponseStrategy(traits, proc[p].ci, now)
       IN  /\ oodaLoop' = [oodaLoop EXCEPT !.decide = decision]
           /\ proc' = [proc EXCEPT ![p].pc = "act", ![p].decision = decision]
    /\ UNCHANGED <<traits, ragMemory, spawnedRepos, mountedTensors, now, calls>>

\* Mutant: the check made with > in place of >=.
RecursionLimitExceeded_strict(request) ==
    request.recursionLevel > traits.recursionDepth

\* The recursion check at the head of spawnRepository.
RecursionLimitExceeded(request) ==
    request.recursionLevel >= traits.recursionDepth

\* executeDecision up to its first await: either the head of spawnRepository
\* for the request (the recursion check, then the repo id; a failed check
\* rejects processIntent), or generateDirectResponse.
ActBegin(p, token) ==
    /\ proc[p].pc = "act"
    /\ LET decision == proc[p].decision
           result == [ response |-> EmptyResponse,
                       spawnedRepos |-> IF decision.shouldSpawnRepo
                                        THEN Array(<<>>) ELSE Undefined,
                       memoryUpdates |-> Null,
                       timestamp |-> now ]
       IN  IF decision.shouldSpawnRepo /\ decision.spawnRequests # <<>>
           THEN LET request == decision.spawnRequests[1]
                IN  IF RecursionLimitExceeded(request)
                    THEN proc' = Settle(p, Rejected("RecursionLimit"))
                    ELSE proc' = [proc EXCEPT ![p].pc = "rag_ext",
                                              ![p].result = result,
                                              ![p].request = request,
                                              ![p].repoId = <<now, token>>]
           ELSE proc' = [proc EXCEPT
                            ![p].pc = "rag_update",
                            ![p].result =
                                [result EXCEPT !.response =
                                    IF decision.shouldSpawnRepo THEN EmptyResponse
                                    ELSE generateDirectResponse(traits, decision)]]
    /\ UNCHANGED <<agentState, now, calls>>

\* ---------------------------------------------------------- spawnRepository
\* The files of createBoltArtifact, by path.
ArtifactFiles(request) ==
    <<"package.json", "README.md">>
    \o (IF request.architecture \in {"frontend", "fullstack"}
        THEN <<"src/App.tsx">> ELSE <<>>)
    \o (IF request.architecture \in {"backend", "fullstack"}
        THEN <<"src/server.ts">> ELSE <<>>)
    \o (IF request.architecture = "ai-agent" THEN <<"src/agent.ts">> ELSE <<>>)

SpawnResult(request, repoId) ==
    [ repoId |-> repoId,
      boltArtifact |-> [id |-> repoId, title |-> request.intent,
                        actions |-> ArtifactFiles(request)],
      ragExtension |-> [repoId |-> repoId] ]

\* A direct call of spawnRepository, up to its first await (inside
\* createRAGExtension): the recursion check, then the repo id.
SpawnRepositoryCall(p, request, token) ==
    /\ Free(p)
    /\ calls' = calls + 1
    /\ IF RecursionLimitExceeded(request)
       THEN proc' = [proc EXCEPT ![p] =
                        [Begin(p, "spawnRepository") EXCEPT
                            !.pc = "done", !.request = request,
                            !.ret = Rejected("RecursionLimit")]]
       ELSE proc' = [proc EXCEPT ![p] =
                        [Begin(p, "spawnRepository") EXCEPT
                            !.pc = "rag_ext", !.request = request,
                            !.repoId = <<now, token>>]]
    /\ UNCHANGED <<agentState, now>>

\* createRAGExtension resumed after generateEmbedding(request.intent): the
\* repo's embedding and its semantic-graph entry are written.
createRAGExtension(rag, request, repoId, embedding) ==
    [rag EXCEPT
        !.embeddings = MapSet(@, RepoKey(repoId), embedding),
        !.semanticGraph = MapSet(@, repoId, <<request.intent>>)]

SpawnRagExtension(p, embedding) ==
    /\ proc[p].pc = "rag_ext"
    /\ ragMemory' = createRAGExtension(ragMemory, proc[p].request,
                                       proc[p].repoId, embedding)
    /\ proc' = [proc EXCEPT ![p].pc = "register"]
    /\ UNCHANGED <<traits, oodaLoop, spawnedRepos, mountedTensors, now, calls>>

\* spawnRepository resumed after createRAGExtension: the registry write, then
\* updateSelfModelFromSpawning up to its await.
RegisterRepo(repos, repoId, request) == MapSet(repos, repoId, request)

SpawnRegister(p) ==
    /\ proc[p].pc = "register"
    /\ spawnedRepos' = RegisterRepo(spawnedRepos, proc[p].repoId, proc[p].request)
    /\ proc' = [proc EXCEPT ![p].pc = "self_model"]
    /\ UNCHANGED <<traits, ragMemory, oodaLoop, mountedTensors, now, calls>>

\* updateSelfModelFromSpawning resumed: the spawn record is written.  A
\* direct call has only its return left; inside processIntent the loop of
\* executeDecision records the spawn and updateRAGMemory runs to its await.
SpawnSelfModel(p, embedding) ==
    /\ proc[p].pc = "self_model"
    /\ ragMemory' = [ragMemory EXCEPT !.embeddings =
                        MapSet(@, SelfModelKey(proc[p].repoId), embedding)]
    /\ IF proc[p].op = "spawnRepository"
       THEN proc' = [proc EXCEPT
                        ![p].pc = "return",
                        ![p].result = SpawnResult(proc[p].request, proc[p].repoId)]
       ELSE proc' = [proc EXCEPT
                        ![p].pc = "rag_update",
                        ![p].result =
                            [@ EXCEPT
                                !.spawnedRepos = Array(Append(@.items, proc[p].request)),
                                !.response = AppendSpawned(@, proc[p].repoId)]]
    /\ UNCHANGED <<traits, oodaLoop, spawnedRepos, mountedTensors, now, calls>>

\* ------------------------------------------------- processIntent, continued
\* updateRAGMemory resumed after generateEmbedding(result.response): the
\* execution record is written (an empty response writes nothing).
updateRAGMemory(rag, result, t, embedding) ==
    IF result.response # EmptyResponse
    THEN [rag EXCEPT !.embeddings = MapSet(@, ExecutionKey(t), embedding)]
    ELSE rag

RagUpdate(p, embedding) ==
    /\ proc[p].pc = "rag_update"
    /\ ragMemory' = updateRAGMemory(ragMemory, proc[p].result, now, embedding)
    /\ proc' = [proc EXCEPT
                   ![p].pc = "act_end",
                   ![p].result.memoryUpdates =
                       [ newEmbeddings |->
                             IF proc[p].result.response # EmptyResponse
                             THEN 1 ELSE 0,
                         updatedContexts |-> 0,
                         graphExtensions |-> 0 ]]
    /\ UNCHANGED <<traits, oodaLoop, spawnedRepos, mountedTensors, now, calls>>

\* Mutant: executeDecision returns without storing the Act record.
ActRecord_unwritten(p) ==
    /\ proc[p].pc = "act_end"
    /\ proc' = [proc EXCEPT ![p].pc = "adapt"]
    /\ UNCHANGED <<agentState, now, calls>>

\* Mutant: the call returns after the Act record, without adapting.
ActRecord_return(p) ==
    /\ proc[p].pc = "act_end"
    /\ oodaLoop' = [oodaLoop EXCEPT !.act = proc[p].result]
    /\ proc' = [proc EXCEPT ![p].pc = "return"]
    /\ UNCHANGED <<traits, ragMemory, spawnedRepos, mountedTensors, now, calls>>

\* executeDecision resumed after updateRAGMemory: the Act record.
ActRecord(p) ==
    /\ proc[p].pc = "act_end"
    /\ oodaLoop' = [oodaLoop EXCEPT !.act = proc[p].result]
    /\ proc' = [proc EXCEPT ![p].pc = "adapt"]
    /\ UNCHANGED <<traits, ragMemory, spawnedRepos, mountedTensors, now, calls>>

\* processIntent resumed after executeDecision: Adapt.
Adapt(p) ==
    /\ proc[p].pc = "adapt"
    /\ traits' = adaptSelfModel(traits)
    /\ proc' = [proc EXCEPT
                   ![p].pc = "return",
                   ![p].result =
                       [ response |-> proc[p].result.response,
                         spawnedRepos |-> proc[p].result.spawnedRepos,
                         memoryUpdates |-> proc[p].result.memoryUpdates,
                         adaptations |-> [timestamp |-> now] ]]
    /\ UNCHANGED <<ragMemory, oodaLoop, spawnedRepos, mountedTensors, now, calls>>

\* The last resumption of a call: its promise is fulfilled.
Return(p) ==
    /\ proc[p].pc = "return"
    /\ proc' = Settle(p, Fulfilled(proc[p].result))
    /\ UNCHANGED <<agentState, now, calls>>

\* -------------------------------------------------- processIntentWithPersona
\* getPersonaState(): oodaState is the live oodaLoop object, kept here as
\* its value when read.
getPersonaState ==
    [ traits |-> traits,
      memorySize |-> Len(ragMemory.embeddings),
      spawnedRepoCount |-> Len(spawnedRepos),
      oodaState |-> oodaLoop,
      tensorMounts |-> Cardinality(DOMAIN mountedTensors) ]

\* processIntentWithPersona resumed when the agent.processIntent it awaits
\* has settled: the result with the persona state, or the fallback of the
\* catch block.  The wrapper's promise is fulfilled either way.
WithPersonaReturn(p) ==
    /\ proc[p].op = "processIntent"
    /\ proc[p].pc = "done"
    /\ proc' = [proc EXCEPT
           ![p].op = "processIntentWithPersona",
           ![p].ret =
               Fulfilled(
                   IF proc[p].ret.status = "fulfilled"
                   THEN [ response |-> proc[p].ret.value.response,
                          spawnedRepos |-> proc[p].ret.value.spawnedRepos,
                          cognitiveState |->
                              [ memoryUpdates |-> proc[p].ret.value.memoryUpdates,
                                adaptations |-> proc[p].ret.value.adaptations,
                                personaState |-> getPersonaState ] ]
                   ELSE [ response |->
                              [ kind |-> "text",
                                text |-> <<"I", "'", "l", "l", " ", "h", "e", "l", "p", " ", "y", "o", "u", " ", "w", "i", "t", "h", " ", "t", "h", "a", "t", " ", "r", "e", "q", "u", "e", "s", "t", " ", "u", "s", "i", "n", "g", " ", "s", "t", "a", "n", "d", "a", "r", "d", " ", "p", "r", "o", "c", "e", "s", "s", "i", "n", "g", ".">> ],
                          cognitiveState |->
                              [ error |-> proc[p].ret.error,
                                fallback |-> TRUE ] ])]
    /\ UNCHANGED <<agentState, now, calls>>

\* ---------------------------------------------------------- retrieveFromRAG
\* The call, up to the await on generateEmbedding(query).
RetrieveCall(p, maxResults) ==
    /\ Free(p)
    /\ calls' = calls + 1
    /\ proc' = [proc EXCEPT ![p] =
                   [Begin(p, "retrieveFromRAG") EXCEPT
                       !.pc = "scan", !.maxResults = maxResults]]
    /\ UNCHANGED <<agentState, now>>

\* Mutant: a scan that keeps the query embedding in the memory.
RetrieveScan_caching(p, queryEmbedding) ==
    /\ proc[p].pc = "scan"
    /\ proc' = Settle(p, Fulfilled(retrieveFromRAG(ragMemory, queryEmbedding,
                                                   proc[p].maxResults)))
    /\ ragMemory' = InsertContextItem(ragMemory, TextKey(0), queryEmbedding)
    /\ UNCHANGED <<traits, oodaLoop, spawnedRepos, mountedTensors, now, calls>>

\* Resumed with the query embedding: the scan, the sort and the return.
RetrieveScan(p, queryEmbedding) ==
    /\ proc[p].pc = "scan"
    /\ proc' = Settle(p, Fulfilled(retrieveFromRAG(ragMemory, queryEmbedding,
                                                   proc[p].maxResults)))
    /\ UNCHANGED <<agentState, now, calls>>

\* -------------------------------------------------- performSelfModification
\* The call, up to the await on evolveTraits (analyzePerformance and
\* adaptPersonaTensors change nothing).
SelfModificationCall(p) ==
    /\ Free(p)
    /\ calls' = calls + 1
    /\ proc' = [proc EXCEPT ![p] =
                   [Begin(p, "performSelfModification") EXCEPT !.pc = "evolve"]]
    /\ UNCHANGED <<agentState, now>>

\* Mutant: the self-modification applies its tensor update by mounting the
\* cognitive-modules tensor anew.
EvolveTraits_mounting(p) ==
    /\ proc[p].pc = "evolve"
    /\ traits' = evolveTraits(traits, analyzePerformance)
    /\ mountedTensors' =
           [mountedTensors EXCEPT ![PersonaPaths[1]] =
               MountTensor(PersonaPaths[1], now + 1, 1, SeedData(1, 1))]
    /\ proc' = [proc EXCEPT
                   ![p].pc = "return",
                   ![p].result = [cognitiveUpdates |-> analyzePerformance]]
    /\ UNCHANGED <<ragMemory, oodaLoop, spawnedRepos, now, calls>>

\* evolveTraits, called when performSelfModification is resumed.
EvolveTraits(p) ==
    /\ proc[p].pc = "evolve"
    /\ traits' = evolveTraits(traits, analyzePerformance)
    /\ proc' = [proc EXCEPT
                   ![p].pc = "return",
                   ![p].result = [cognitiveUpdates |-> analyzePerformance]]
    /\ UNCHANGED <<ragMemory, oodaLoop, spawnedRepos, mountedTensors, now, calls>>

\* ---------------------------------------------------- CognitiveQuantumField
\* mount, remount and unmount are synchronous: a call is one step.  The slot
\* p is the caller's variable that keeps the returned value (or the error).
Returned(value) == [status |-> "returned", value |-> value]
Thrown(error) == [status |-> "thrown", error |-> error]

FieldCall(p, op, args, outcome) ==
    [Begin(p, op) EXCEPT !.pc = "done", !.request = args, !.ret = outcome]

\* The array identity the next allocation gets.
NextBuffer == calls + 1

\* Math.random() * range for each element, the seed-th outcome.
RandomData(dtype, seed) ==
    [j \in 1..TensorLen |->
        IF dtype = "float32" THEN Rat((seed + j) % 4, 4)
        ELSE IF (seed + j) % 2 = 0 THEN Rat(0, 1)
        ELSE Rat(DtypeMax(dtype) - 1, 1)]

\* this.mountedTensors[path] = tensor
SetMount(table, path, tensor) ==
    [q \in DOMAIN table \cup {path} |-> IF q = path THEN tensor ELSE table[q]]

\* new CognitiveQuantumField(): nothing mounted.
EmptyTable == [q \in {} |-> Null]

\* mount(path)
Mount(p, path, token, seed) ==
    /\ calls' = calls + 1
    /\ IF parsePathThrows(path)
       THEN /\ proc' = [proc EXCEPT ![p] =
                           FieldCall(p, "mount", [path |-> path],
                                     Thrown("Invalid path"))]
            /\ UNCHANGED mountedTensors
       ELSE LET dtype ==
                    DtypeOfBits(optimizeQuantization(parsePath(path)).bits)
                tensor ==
                    MountTensor(path, now, token,
                                TypedArray(NextBuffer, RandomData(dtype, seed)))
            IN  /\ mountedTensors' = SetMount(mountedTensors, path, tensor)
                /\ proc' = [proc EXCEPT ![p] =
                               FieldCall(p, "mount", [path |-> path],
                                         Returned(tensor))]
    /\ UNCHANGED <<traits, ragMemory, oodaLoop, spawnedRepos, now>>

\* The tensors the caller can pass to remount: those returned to it and
\* those of getMountedTensors().
HeldTensors ==
    { proc[p].ret.value :
        p \in { q \in Procs : /\ proc[q].op \in {"mount", "remount"}
                              /\ proc[q].pc = "done"
                              /\ proc[q].ret.status = "returned" } }
    \cup { mountedTensors[path] : path \in DOMAIN mountedTensors }

\* remount(data, newPath)
Remount(p, data, newPath) ==
    /\ data \in HeldTensors
    /\ calls' = calls + 1
    /\ IF parsePathThrows(newPath)
       THEN /\ proc' = [proc EXCEPT ![p] =
                           FieldCall(p, "remount",
                                     [data |-> data, path |-> newPath],
                                     Thrown("Invalid path"))]
            /\ UNCHANGED mountedTensors
       ELSE LET tensor == RemountTensor(data, newPath, now, NextBuffer)
            IN  /\ mountedTensors' = SetMount(mountedTensors, newPath, tensor)
                /\ proc' = [proc EXCEPT ![p] =
                               FieldCall(p, "remount",
                                         [data |-> data, path |-> newPath],
                                         Returned(tensor))]
    /\ UNCHANGED <<traits, ragMemory, oodaLoop, spawnedRepos, now>>

\* unmount(path)
Unmount(p, path) ==
    /\ calls' = calls + 1
    /\ LET found == MountedTruthy(mountedTensors, path)
       IN  /\ mountedTensors' = IF found THEN DeleteMount(mountedTensors, path)
                                ELSE mountedTensors
           /\ proc' = [proc EXCEPT ![p] =
                          FieldCall(p, "unmount", [path |-> path],
                                    Returned(found))]
    /\ UNCHANGED <<traits, ragMemory, oodaLoop, spawnedRepos, now>>

\* parsePath(path), called on its own.
ParsePathCall(p, path) ==
    /\ calls' = calls + 1
    /\ proc' = [proc EXCEPT ![p] =
                   FieldCall(p, "parsePath", [path |-> path],
                             IF parsePathThrows(path)
                             THEN Thrown("Invalid path")
                             ELSE Returned(parsePath(path)))]
    /\ UNCHANGED <<agentState, now>>

\* optimizeQuantization(intent), called on its own.
OptimizeQuantizationCall(p, intent) ==
    /\ calls' = calls + 1
    /\ proc' = [proc EXCEPT ![p] =
                   FieldCall(p, "optimizeQuantization", [intent |-> intent],
                             Returned(optimizeQuantization(intent)))]
    /\ UNCHANGED <<agentState, now>>

\* collapseQuantumField(intent, quant), called on its own.
CollapseQuantumFieldCall(p, intent, quant) ==
    /\ calls' = calls + 1
    /\ proc' = [proc EXCEPT ![p] =
                   FieldCall(p, "collapseQuantumField",
                             [intent |-> intent, quant |-> quant],
                             Returned(collapseQuantumField(intent, quant)))]
    /\ UNCHANGED <<agentState, now>>

\* tensor.data[i] = x, on one reference to the array `buffer`: every
\* reference to that array sees the element stored.
StoreInto(tensor, buffer, i, x) ==
    IF tensor.data.buffer = buffer
    THEN [tensor EXCEPT !.data.elements[i] = StoreElement(tensor.dtype, x)]
    ELSE tensor

\* The caller writes an element of a tensor it holds.
WriteElement(buffer, i, x) ==
    /\ \E tensor \in HeldTensors :
          /\ tensor.data.buffer = buffer
          /\ i \in 1..Len(tensor.data.elements)
          /\ tensor.data.elements[i] # StoreElement(tensor.dtype, x)
    /\ mountedTensors' =
          [path \in DOMAIN mountedTensors |->
              StoreInto(mountedTensors[path], buffer, i, x)]
    /\ proc' =
          [p \in Procs |->
              IF /\ proc[p].op \in {"mount", "remount"}
                 /\ proc[p].ret.status = "returned"
              THEN [proc[p] EXCEPT !.ret.value = StoreInto(@, buffer, i, x)]
              ELSE proc[p]]
    /\ UNCHANGED <<traits, ragMemory, oodaLoop, spawnedRepos, now, calls>>

\* --------------------------------------------------------------- the inputs
\* A call may start while fewer than MaxCalls calls were started; it takes
\* the lowest free slot (slots are interchangeable).
MayStart(p) ==
    /\ calls < MaxCalls
    /\ \A q \in 1..(p - 1) : ~Free(q)

\* Trait configurations an agent is constructed with: the shared agent's, one
\* whose recursion depth admits no spawn, one without Bolt integration, one
\* at the upper end of the scalar range and one outside [0, 1].
TraitConfigs ==
    { DefaultTraits,
      [DefaultTraits EXCEPT !.recursionDepth = 0],
      [DefaultTraits EXCEPT !.boltIntegration = FALSE],
      [DefaultTraits EXCEPT !.creativity = One, !.precision = One],
      [DefaultTraits EXCEPT !.creativity = Rat(-1, 2), !.precision = Rat(3, 2)] }

\* Requests passed to spawnRepository directly.
Request(level) ==
    [ intent |-> <<"Test">>, technologies |-> <<"react">>,
      architecture |-> "frontend", recursionLevel |-> level ]

Requests == {Request(l) : l \in {0, 3, 4}}

\* A context list of n distinct strings (a context string is a number).
Bulk(n) == [i \in 1..n |-> i]

\* The single embedding drawn where the values do not matter.
Embeddings == {<<1, 0>>}

\* Embeddings for retrieval.  Against <<1, 0, 0, 0>> their cosines are 1,
\* about 0.95, about 0.71, exactly 0.7, 0 and NaN (the zero vector).
RagEmbeddings ==
    { <<1, 0, 0, 0>>, <<3, 1, 0, 0>>, <<1, 1, 0, 0>>, <<7, 1, 1, 7>>,
      <<0, 1, 0, 0>>, <<0, 0, 0, 0>> }

\* Calls made on a tensor field.
MaxFieldCalls == 3

\* Paths given to the tensor field: the two of the documentation, one of
\* medium precision and one whose complexity passes 10, and paths that are
\* no domain/task pair.
FieldPaths ==
    { <<"/", "m", "o", "d", "e", "l", "s", "/", "v", "i", "s", "i", "o", "n", "/", "r", "e", "a", "l", "t", "i", "m", "e">>,
      <<"/", "i", "n", "f", "e", "r", "e", "n", "c", "e", "/", "n", "l", "p", "/", "p", "r", "e", "c", "i", "s", "e">>,
      <<"/", "a", "u", "d", "i", "o", "/", "s", "p", "e", "e", "c", "h">>,
      <<"/", "n", "l", "p", "/", "g", "e", "n", "e", "r", "a", "t", "i", "o", "n", "/", "h", "i", "g", "h">> }

InvalidPaths == { <<"/", "m", "o", "d", "e", "l", "s">>, <<"c", "o", "n", "s", "t", "r", "u", "c", "t", "o", "r">> }

\* Further paths: no segment, empty segments only, two segments after a
\* namespace word, no leading slash, modifiers of either precision, each
\* keyword as the task and as a modifier, an nlp path for a realtime task.
ProbePaths ==
    { <<>>, <<"/", "/">>, <<"/", "m", "o", "d", "e", "l", "s", "/", "v", "i", "s", "i", "o", "n">>, <<"v", "i", "s", "i", "o", "n", "/", "l", "i", "v", "e">>,
      <<"/", "m", "o", "d", "e", "l", "s", "/", "v", "i", "s", "i", "o", "n", "/", "r", "e", "a", "l", "t", "i", "m", "e", "/", "h", "i", "g", "h">>, <<"/", "i", "n", "f", "e", "r", "e", "n", "c", "e", "/", "/", "n", "l", "p", "/", "g", "e", "n", "e", "r", "a", "t", "i", "o", "n", "/", "f", "a", "s", "t", "/">>,
      <<"/", "n", "l", "p", "/", "h", "i", "g", "h">>,
      <<"/", "a", "u", "d", "i", "o", "/", "l", "o", "w">>,
      <<"/", "a", "u", "d", "i", "o", "/", "s", "p", "e", "e", "c", "h", "/", "l", "i", "v", "e">>,
      <<"/", "a", "u", "d", "i", "o", "/", "s", "p", "e", "e", "c", "h", "/", "r", "e", "a", "l", "t", "i", "m", "e">>,
      <<"/", "a", "u", "d", "i", "o", "/", "s", "p", "e", "e", "c", "h", "/", "p", "r", "e", "c", "i", "s", "e">>,
      <<"/", "m", "o", "d", "e", "l", "s", "/", "n", "l", "p", "/", "r", "e", "a", "l", "t", "i", "m", "e">> }

\* Intents passed to optimizeQuantization directly.
Intents ==
    [ domain : { <<"v", "i", "s", "i", "o", "n">>, <<"n", "l", "p">>, <<"a", "u", "d", "i", "o">> },
      task : { <<"r", "e", "a", "l", "t", "i", "m", "e">>, <<"p", "r", "e", "c", "i", "s", "e">> },
      precision : {"high", "medium", "low"},
      realtime : BOOLEAN,
      complexity : {1, 10} ]

\* Intents passed to collapseQuantumField directly: every domain the rules
\* name and one they do not, a task with 'time' inside and one without,
\* complexity on either side of 7.
CollapseIntents ==
    [ domain : { <<"v", "i", "s", "i", "o", "n">>, <<"s", "e", "q", "u", "e", "n", "c", "e">>, <<"n", "l", "p">>, <<"m", "u", "l", "t", "i", "m", "o", "d", "a", "l">>, <<"a", "u", "d", "i", "o">> },
      task : { <<"r", "e", "a", "l", "t", "i", "m", "e">>, <<"p", "r", "e", "d", "i", "c", "t", "i", "o", "n">> },
      precision : {"medium"},
      realtime : BOOLEAN,
      complexity : {7, 8} ]

\* The same, for the conversions: one path per dtype.
ConvertPaths ==
    { <<"/", "i", "n", "f", "e", "r", "e", "n", "c", "e", "/", "n", "l", "p", "/", "p", "r", "e", "c", "i", "s", "e">>, <<"/", "a", "u", "d", "i", "o", "/", "s", "p", "e", "e", "c", "h">>, <<"/", "m", "o", "d", "e", "l", "s", "/", "v", "i", "s", "i", "o", "n", "/", "f", "a", "s", "t">> }

\* The value the caller writes into an array: one above 1.
WriteValues == { Rat(3, 2) }

\* ------------------------------------------------------ the specifications
\* Spec: one agent with calls in flight at the same time, all started
\* within one clock reading.  Intents: a plain question, a request that
\* spawns, and null.
Init ==
    \E tr \in {DefaultTraits, [DefaultTraits EXCEPT !.recursionDepth = 0]},
       k \in 1..MaxSeed :
        Constructed(tr, k)

Next ==
    \/ \E p \in Procs, intent \in {3, 4, 11}, context \in {<<>>, <<1, 2>>} :
           MayStart(p) /\ ProcessIntentCall(p, intent, context)
    \/ \E p \in Procs : OrientRecord(p)
    \/ \E p \in Procs, e \in Embeddings : OrientInsert(p, e)
    \/ \E p \in Procs : Decide(p)
    \/ \E p \in Procs, token \in Tokens : ActBegin(p, token)
    \/ \E p \in Procs, request \in Requests, token \in Tokens :
           MayStart(p) /\ SpawnRepositoryCall(p, request, token)
    \/ \E p \in Procs, e \in Embeddings : SpawnRagExtension(p, e)
    \/ \E p \in Procs : SpawnRegister(p)
    \/ \E p \in Procs, e \in Embeddings : SpawnSelfModel(p, e)
    \/ \E p \in Procs, e \in Embeddings : RagUpdate(p, e)
    \/ \E p \in Procs : ActRecord(p)
    \/ \E p \in Procs : Adapt(p)
    \/ \E p \in Procs : Return(p)
    \/ \E p \in Procs : MayStart(p) /\ RetrieveCall(p, DefaultMaxResults)
    \/ \E p \in Procs, q \in Embeddings : RetrieveScan(p, q)
    \/ \E p \in Procs : MayStart(p) /\ SelfModificationCall(p)
    \/ \E p \in Procs : EvolveTraits(p)

Spec == Init /\ [][Next]_vars

\* SpecCaller: one caller making its calls one after the other, with every
\* intent and every trait configuration.
InitCaller == \E tr \in TraitConfigs, k \in 1..MaxSeed : Constructed(tr, k)

NextCaller ==
    \/ \E intent \in AllIntents, context \in {<<>>, <<1>>} :
           MayStart(1) /\ ProcessIntentCall(1, intent, context)
    \/ OrientRecord(1)
    \/ \E e \in Embeddings : OrientInsert(1, e)
    \/ Decide(1)
    \/ \E token \in Tokens : ActBegin(1, token)
    \/ \E e \in Embeddings : SpawnRagExtension(1, e)
    \/ SpawnRegister(1)
    \/ \E e \in Embeddings : SpawnSelfModel(1, e)
    \/ \E e \in Embeddings : RagUpdate(1, e)
    \/ ActRecord(1)
    \/ Adapt(1)
    \/ Return(1)
    \/ MayStart(1) /\ SelfModificationCall(1)
    \/ EvolveTraits(1)

SpecCaller == InitCaller /\ [][NextCaller]_vars

\* SpecCallerLive: the same caller, with the event loop running every
\* continuation whose awaited promise has settled (all the promises a call
\* awaits are settled when they are created: nothing waits on I/O).
Resume(p) ==
    \/ OrientRecord(p)
    \/ \E e \in Embeddings : OrientInsert(p, e)
    \/ Decide(p)
    \/ \E token \in Tokens : ActBegin(p, token)
    \/ \E e \in Embeddings : SpawnRagExtension(p, e)
    \/ SpawnRegister(p)
    \/ \E e \in Embeddings : SpawnSelfModel(p, e)
    \/ \E e \in Embeddings : RagUpdate(p, e)
    \/ ActRecord(p)
    \/ Adapt(p)
    \/ Return(p)
    \/ EvolveTraits(p)

SpecCallerLive == SpecCaller /\ WF_vars(Resume(1))

\* SpecPersona: the shared agent of prompts.ts (constructed with the default
\* traits) behind processIntentWithPersona; the caller awaits each call and
\* keeps each result in a variable of its own.
NextPersona ==
    \/ \E p \in Procs, intent \in AllIntents, context \in {<<>>, <<1>>} :
           /\ calls < MaxCalls
           /\ proc[p].pc = "idle"
           /\ \A q \in Procs : Free(q) /\ proc[q].op # "processIntent"
           /\ ProcessIntentCall(p, intent, context)
    \/ \E p \in Procs : OrientRecord(p)
    \/ \E p \in Procs, e \in Embeddings : OrientInsert(p, e)
    \/ \E p \in Procs : Decide(p)
    \/ \E p \in Procs, token \in Tokens : ActBegin(p, token)
    \/ \E p \in Procs, e \in Embeddings : SpawnRagExtension(p, e)
    \/ \E p \in Procs : SpawnRegister(p)
    \/ \E p \in Procs, e \in Embeddings : SpawnSelfModel(p, e)
    \/ \E p \in Procs, e \in Embeddings : RagUpdate(p, e)
    \/ \E p \in Procs : ActRecord(p)
    \/ \E p \in Procs : Adapt(p)
    \/ \E p \in Procs : Return(p)
    \/ \E p \in Procs : WithPersonaReturn(p)

SpecPersona ==
    (\E k \in 1..MaxSeed : Constructed(DefaultTraits, k)) /\ [][NextPersona]_vars

\* SpecMemory: one caller supplying long context lists, with time passing.
InitMemory == \E k \in 1..MaxSeed : Constructed(DefaultTraits, k)

NextMemory ==
    \/ Tick
    \/ \E context \in {<<>>, <<1, 2>>, Bulk(100), Bulk(120)} :
           MayStart(1) /\ ProcessIntentCall(1, 3, context)
    \/ OrientRecord(1)
    \/ \E e \in Embeddings : OrientInsert(1, e)
    \/ Decide(1)
    \/ \E token \in Tokens : ActBegin(1, token)
    \/ \E token \in Tokens :
           MayStart(1) /\ SpawnRepositoryCall(1, Request(0), token)
    \/ \E e \in Embeddings : SpawnRagExtension(1, e)
    \/ SpawnRegister(1)
    \/ \E e \in Embeddings : SpawnSelfModel(1, e)
    \/ \E e \in Embeddings : RagUpdate(1, e)
    \/ ActRecord(1)
    \/ Adapt(1)
    \/ Return(1)

SpecMemory == InitMemory /\ [][NextMemory]_vars

\* SpecRetrieval: one caller filling the memory with embeddings of several
\* directions and querying it.
InitRetrieval == \E k \in 1..MaxSeed : Constructed(DefaultTraits, k)

NextRetrieval ==
    \/ MayStart(1) /\ ProcessIntentCall(1, 3, <<1, 2>>)
    \/ OrientRecord(1)
    \/ \E e \in RagEmbeddings : OrientInsert(1, e)
    \/ Decide(1)
    \/ \E token \in Tokens : ActBegin(1, token)
    \/ \E e \in RagEmbeddings : RagUpdate(1, e)
    \/ ActRecord(1)
    \/ Adapt(1)
    \/ Return(1)
    \/ \E maxResults \in {-1, 0, 1, 2, DefaultMaxResults} :
           MayStart(1) /\ RetrieveCall(1, maxResults)
    \/ \E q \in RagEmbeddings : RetrieveScan(1, q)

SpecRetrieval == InitRetrieval /\ [][NextRetrieval]_vars

\* SpecField: a tensor field of its own, with time passing between calls.
InitField ==
    /\ traits = DefaultTraits
    /\ ragMemory = InitialRAGMemory
    /\ oodaLoop = InitialOODALoop
    /\ spawnedRepos = <<>>
    /\ mountedTensors = EmptyTable
    /\ now = 0
    /\ proc = [p \in Procs |-> Idle]
    /\ calls = 0

NextField ==
    \/ Tick
    \/ \E p \in Procs, path \in FieldPaths \cup InvalidPaths,
          token \in Tokens :
           calls < MaxFieldCalls /\ Mount(p, path, token, 1)
    \/ \E p \in Procs, data \in HeldTensors,
          newPath \in FieldPaths \cup InvalidPaths :
           calls < MaxFieldCalls /\ Remount(p, data, newPath)
    \/ \E p \in Procs, path \in FieldPaths \cup InvalidPaths :
           calls < MaxFieldCalls /\ Unmount(p, path)

SpecField == InitField /\ [][NextField]_vars

\* SpecConvert: a tensor field whose caller writes array elements between
\* remounts.
NextConvert ==
    \/ \E p \in Procs, path \in ConvertPaths, seed \in 1..2 :
           calls < MaxFieldCalls /\ Mount(p, path, 1, seed)
    \/ \E p \in Procs, data \in HeldTensors, newPath \in ConvertPaths :
           calls < MaxFieldCalls /\ Remount(p, data, newPath)
    \/ \E tensor \in HeldTensors, i \in 1..TensorLen, x \in WriteValues :
           WriteElement(tensor.data.buffer, i, x)

SpecConvert == InitField /\ [][NextConvert]_vars

\* SpecIntent: the functions from a path to a tensor, called one by one on
\* a tensor field of its own.
NextIntent ==
    \/ \E path \in FieldPaths \cup InvalidPaths \cup ProbePaths :
           calls < MaxFieldCalls /\ ParsePathCall(1, path)
    \/ \E intent \in Intents :
           calls < MaxFieldCalls /\ OptimizeQuantizationCall(1, intent)
    \/ \E path \in FieldPaths \cup InvalidPaths \cup ProbePaths :
           calls < MaxFieldCalls /\ Mount(1, path, 1, 1)
    \/ \E data \in HeldTensors,
          newPath \in FieldPaths \cup InvalidPaths \cup ProbePaths :
           calls < MaxFieldCalls /\ Remount(1, data, newPath)

SpecIntent == InitField /\ [][NextIntent]_vars

\* SpecCollapse: collapseQuantumField applied to intents and to the
\* strategies optimizeQuantization returns.
NextCollapse ==
    \E intent \in CollapseIntents,
       quant \in { optimizeQuantization(i) : i \in Intents } :
        calls < MaxFieldCalls /\ CollapseQuantumFieldCall(1, intent, quant)

SpecCollapse == InitField /\ [][NextCollapse]_vars

\* SpecRoundTrip: a tensor field whose caller mounts an integer tensor,
\* writes a value into its first element and remounts it between the two
\* integer widths.  The values written: every uint8 value, and around every
\* multiple of 257 the multiple, its successor and the two values on either
\* side of the rounding boundary of Math.round(w / 257).
RoundTripPaths ==
    { path \in ConvertPaths :
        DtypeOfBits(optimizeQuantization(parsePath(path)).bits) # "float32" }

RoundTripValues ==
    { Rat(w, 1) : w \in (0..255) \cup
                        ({ 257 * k + d : k \in 0..255, d \in {0, 1, 128, 129} }
                            \cap (0..65535)) }

NextRoundTrip ==
    \/ \E path \in RoundTripPaths :
           calls < MaxFieldCalls /\ Mount(1, path, 1, 1)
    \/ \E tensor \in HeldTensors, x \in RoundTripValues :
           calls = 1 /\ WriteElement(tensor.data.buffer, 1, x)
    \/ \E p \in Procs, data \in HeldTensors, newPath \in RoundTripPaths :
           calls < MaxFieldCalls /\ Remount(p, data, newPath)

SpecRoundTrip == InitField /\ [][NextRoundTrip]_vars

\* ================================================================== claims
InFlight(p) == ~Free(p)
Done(p, op) == proc[p].pc = "done" /\ proc[p].op = op

\* C1: spawnRepository called with a request whose recursionLevel is greater
\* than or equal to traits.recursionDepth (equality included) fails with the
\* recursion-limit error, and the failing step leaves the spawned-repo
\* registry, the mount table and the memory store as they were.  The call is
\* either made directly or made by the Act stage of processIntent.
C1_RejectedSpawnChangesNothing ==
    [][\A p \in Procs :
        /\ ( /\ Free(p)
             /\ proc'[p].call = calls + 1
             /\ proc'[p].op = "spawnRepository"
             /\ proc'[p].request.recursionLevel >= traits.recursionDepth )
           => ( /\ proc'[p].pc = "done"
                /\ proc'[p].ret = Rejected("RecursionLimit")
                /\ UNCHANGED <<spawnedRepos, mountedTensors, ragMemory>> )
        /\ ( /\ proc[p].pc = "act"
             /\ proc'[p] # proc[p]
             /\ proc[p].decision.shouldSpawnRepo
             /\ proc[p].decision.spawnRequests[1].recursionLevel
                    >= traits.recursionDepth )
           => ( /\ proc'[p].pc = "done"
                /\ proc'[p].ret = Rejected("RecursionLimit")
                /\ UNCHANGED <<spawnedRepos, mountedTensors, ragMemory>> )
      ]_vars

\* A direct call at exactly the recursion depth was rejected by an agent
\* that holds a spawned repository and embeddings.
C1_Witness ==
    \E p \in Procs :
        /\ Done(p, "spawnRepository")
        /\ proc[p].ret = Rejected("RecursionLimit")
        /\ proc[p].request.recursionLevel = traits.recursionDepth
        /\ spawnedRepos # <<>>
        /\ ragMemory.embeddings # <<>>

MalformedText == {1, 2, 10}

C3_WindowNeverExceedsLimit ==
    Len(ragMemory.contextWindow) <= ContextWindowLimit

\* C4: whenever every call made so far has completed, the number of stored
\* embeddings (memorySize) is at most the context-window bound of 100.
C4_MemorySizeBounded ==
    (\A p \in Procs : Free(p))
        => Len(ragMemory.embeddings) <= ContextWindowLimit

\* A call of spawnRepository that has passed its recursion check and has not
\* yet written its registry entry.
BetweenCheckAndRegister(p) == proc[p].pc \in {"rag_ext", "register"}

\* C5: the recursion check of spawnRepository and the registry write that
\* follows it are one atomic step with respect to other calls: while a call
\* is between the two, no other processIntent or spawnRepository call takes
\* a step.
C5_CheckAndRegisterAtomic ==
    [][\A p, q \in Procs :
        (p # q /\ BetweenCheckAndRegister(p))
            => \/ proc'[q] = proc[q]
               \/ proc'[q].op \notin {"processIntent", "spawnRepository"}
      ]_vars

\* A call in its Orient stage that has inserted an item and has more to
\* insert.
MidOrient(p) == proc[p].pc = "insert" /\ proc[p].i > 1

\* C6: mutations of the context window and of the embedding map are
\* serialized: while one call is between two insertions of its Orient
\* stage, no other call changes the memory store.
C6_OrientWritesSerialized ==
    [][\A p, q \in Procs :
        (p # q /\ MidOrient(p) /\ proc'[q] # proc[q])
            => ragMemory' = ragMemory
      ]_vars

\* The spawn condition, on the classified intent ci.
SpawnTriggered(ci) ==
    /\ traits.boltIntegration
    /\ (ci.task = "creation" \/ ci.domain = "development")
    /\ ci.complexity > 6

C8_RegistryGrowsByOne ==
    [][/\ Len(spawnedRepos') >= Len(spawnedRepos)
       /\ \A i \in 1..Len(spawnedRepos) : spawnedRepos'[i] = spawnedRepos[i]
       /\ \A p \in Procs :
             (proc[p].pc = "register" /\ proc'[p].pc # "register")
                 => /\ Len(spawnedRepos') = Len(spawnedRepos) + 1
                    /\ MapGet(spawnedRepos', proc[p].repoId) = proc[p].request
      ]_vars

\* s > 0.7, for a similarity s.
AboveDefaultThreshold(s) ==
    s.norms # 0 /\ s.dot > 0 /\ 100 * s.dot * s.dot > 49 * s.norms

\* What C9 says of a settled retrieveFromRAG call in slot p.
RetrievalContract(p) ==
    LET rs == proc[p].ret.value.results
        q == proc[p].ret.value.embeddings
    IN  /\ Len(rs) <= proc[p].maxResults
        /\ \A i \in 1..Len(rs) :
              /\ MapHas(ragMemory.embeddings, rs[i].content)
              /\ rs[i].relevance =
                     cosineSimilarity(q, MapGet(ragMemory.embeddings,
                                                rs[i].content))
              /\ AboveDefaultThreshold(rs[i].relevance)
        /\ \A i, j \in 1..Len(rs) :
              i < j => ~SimGreater(rs[j].relevance, rs[i].relevance)

\* C9 as stated: for every memory state, query and maxResults,
\* retrieveFromRAG returns at most maxResults entries, each of similarity
\* strictly greater than 0.7, each a key of the embedding map, in order of
\* non-increasing similarity.
C9_RetrievalForEveryMaxResults ==
    \A p \in Procs : Done(p, "retrieveFromRAG") => RetrievalContract(p)

\* C9 amended: the same for every maxResults >= 0.
C9_RetrievalForNonNegativeMaxResults ==
    \A p \in Procs :
        (Done(p, "retrieveFromRAG") /\ proc[p].maxResults >= 0)
            => RetrievalContract(p)

\* A retrieval cut to two entries of different similarity, out of more.
C9_Witness ==
    /\ Done(1, "retrieveFromRAG")
    /\ proc[1].maxResults = 2
    /\ Len(proc[1].ret.value.results) = 2
    /\ SimGreater(proc[1].ret.value.results[1].relevance,
                  proc[1].ret.value.results[2].relevance)
    /\ Len(RelevantEntries(ragMemory, proc[1].ret.value.embeddings)) > 2

\* creativity and precision both lie in [0, 1].
InUnitRange(tr) ==
    /\ RatLeq(Zero, tr.creativity) /\ RatLeq(tr.creativity, One)
    /\ RatLeq(Zero, tr.precision) /\ RatLeq(tr.precision, One)

\* The step of slot p is an adaptation step: the Adapt stage of processIntent
\* or the trait step of performSelfModification.
AdaptationStep(p) ==
    proc[p].pc \in {"adapt", "evolve"} /\ proc'[p].pc = "return"

\* C10 as stated: after every adaptation step creativity and precision lie
\* in [0, 1], whatever they were before.
C10_ClampedAfterEveryStep ==
    [][\A p \in Procs : AdaptationStep(p) => InUnitRange(traits')]_vars

\* C10 amended: an adaptation step that starts with creativity and
\* precision in [0, 1] ends with both in [0, 1].
C10_UnitRangePreserved ==
    [][\A p \in Procs :
        (AdaptationStep(p) /\ InUnitRange(traits)) => InUnitRange(traits')
      ]_vars

\* performSelfModification has raised a creativity of 1 and left it at 1.
C10_Witness ==
    /\ proc[1].op = "performSelfModification"
    /\ proc[1].pc = "return"
    /\ traits.creativity = One
    /\ InUnitRange(traits)

\* The step is a call of op on the tensor field, recorded in slot p.
FieldStep(p, op) ==
    calls' = calls + 1 /\ proc'[p].call = calls' /\ proc'[p].op = op

\* Slot p holds a tensor that mount or remount returned.
HoldsTensor(p) ==
    /\ proc[p].op \in {"mount", "remount"}
    /\ proc[p].pc = "done"
    /\ proc[p].ret.status = "returned"

\* The step stores into the array `buffer`.
BufferWritten(buffer) ==
    \/ \E q \in Procs :
          /\ HoldsTensor(q)
          /\ proc[q].ret.value.data.buffer = buffer
          /\ proc'[q].ret.value.data # proc[q].ret.value.data
    \/ \E path \in DOMAIN mountedTensors :
          /\ mountedTensors[path].data.buffer = buffer
          /\ mountedTensors'[path].data # mountedTensors[path].data

C12_ShapeAndLengthKept ==
    \A p \in Procs :
        (HoldsTensor(p) /\ proc[p].op = "remount")
            => /\ proc[p].ret.value.shape = proc[p].request.data.shape
               /\ Len(proc[p].ret.value.data.elements)
                     = Len(proc[p].request.data.data.elements)

\* The second remount of a chain has returned, each with a change of dtype.
C12_Witness ==
    \E p \in Procs :
        /\ HoldsTensor(p) /\ proc[p].op = "remount"
        /\ proc[p].request.data.id[1] = "reinterpreted"
        /\ proc[p].ret.value.dtype = "float32"
        /\ proc[p].request.data.dtype = "uint8"
        /\ proc[p].request.data.id[2][1] = "tensor"

\* C13: tensor ids are unique per mount: two tensors returned by different
\* mount or remount calls (each call allocates its own data array) have
\* different ids, also two remounts of one source at one clock reading.
C13_TensorIdsUnique ==
    \A t1, t2 \in HeldTensors :
        t1.data.buffer # t2.data.buffer => t1.id # t2.id

\* C14: the mount table follows the calls: a successful mount or remount
\* sets the entry of its path to the tensor it returns and leaves the other
\* entries alone, a failing one changes nothing, and unmount(path) returns
\* true iff the path was mounted, removes only that entry, and returns false
\* without changing the table when the path was not mounted.
C14_TableFollowsCalls ==
    [][\A p \in Procs :
        /\ (FieldStep(p, "mount") \/ FieldStep(p, "remount"))
              => IF proc'[p].ret.status = "returned"
                 THEN /\ DOMAIN mountedTensors'
                            = DOMAIN mountedTensors \cup {proc'[p].request.path}
                      /\ mountedTensors'[proc'[p].request.path]
                            = proc'[p].ret.value
                      /\ \A path \in DOMAIN mountedTensors :
                            path # proc'[p].request.path
                                => mountedTensors'[path] = mountedTensors[path]
                 ELSE mountedTensors' = mountedTensors
        /\ FieldStep(p, "unmount")
              => /\ proc'[p].ret.value
                       = (proc'[p].request.path \in DOMAIN mountedTensors)
                 /\ DOMAIN mountedTensors'
                       = DOMAIN mountedTensors \ {proc'[p].request.path}
                 /\ \A path \in DOMAIN mountedTensors' :
                       mountedTensors'[path] = mountedTensors[path]
      ]_vars

\* C15: the dtype of every tensor mount or remount returns, and of every
\* mount-table entry, is fixed by its quantization bits (32 float32, 16
\* uint16, 8 uint8) whatever the dtype of the source was;
\* mount('/models/vision/realtime') yields uint8 and cnn,
\* mount('/inference/nlp/precise') yields float32 and transformer.
C15_DtypeFollowsBits ==
    /\ \A t \in HeldTensors :
          /\ t.quantization.bits \in {8, 16, 32}
          /\ t.quantization.bits = 32 => t.dtype = "float32"
          /\ t.quantization.bits = 16 => t.dtype = "uint16"
          /\ t.quantization.bits = 8 => t.dtype = "uint8"
    /\ \A p \in Procs :
          (HoldsTensor(p) /\ proc[p].op = "mount")
              => /\ proc[p].request.path = <<"/", "m", "o", "d", "e", "l", "s", "/", "v", "i", "s", "i", "o", "n", "/", "r", "e", "a", "l", "t", "i", "m", "e">>
                    => /\ proc[p].ret.value.dtype = "uint8"
                       /\ proc[p].ret.value.architecture.type = "cnn"
                 /\ proc[p].request.path = <<"/", "i", "n", "f", "e", "r", "e", "n", "c", "e", "/", "n", "l", "p", "/", "p", "r", "e", "c", "i", "s", "e">>
                    => /\ proc[p].ret.value.dtype = "float32"
                       /\ proc[p].ret.value.architecture.type = "transformer"

\* A float32 tensor was remounted to 8 bits and the result to 16 bits.
C15_Witness ==
    \E p \in Procs :
        /\ HoldsTensor(p) /\ proc[p].op = "remount"
        /\ proc[p].ret.value.dtype = "uint16"
        /\ proc[p].request.data.dtype = "uint8"
        /\ proc[p].request.data.id[1] = "reinterpreted"
        /\ proc[p].request.data.id[2] = <<"tensor", 0, 1>>
        /\ <<"/", "i", "n", "f", "e", "r", "e", "n", "c", "e", "/", "n", "l", "p", "/", "p", "r", "e", "c", "i", "s", "e">> \in DOMAIN mountedTensors

\* round(x * max) clamped into 0 .. max.
ClampedRound(x, max) == Rat(Max(0, Min(max, MathRound(RatScale(x, max)))), 1)

\* C16: remount from float32 to uint8 (uint16) maps each source element x
\* to round(x * 255) (round(x * 65535)) clamped into the target range, for
\* every source value, also below 0 and above 1.
C16_FloatToIntegerClamps ==
    [][\A p \in Procs :
        (/\ FieldStep(p, "remount")
         /\ proc'[p].ret.status = "returned"
         /\ proc'[p].request.data.dtype = "float32"
         /\ proc'[p].ret.value.dtype \in {"uint8", "uint16"})
            => \A i \in 1..Len(proc'[p].request.data.data.elements) :
                  proc'[p].ret.value.data.elements[i]
                      = ClampedRound(proc'[p].request.data.data.elements[i],
                                     DtypeMax(proc'[p].ret.value.dtype))
      ]_vars

\* |x - y| <= 1/255
WithinOne255th(x, y) ==
    /\ 255 * (x[1] * y[2] - y[1] * x[2]) <= x[2] * y[2]
    /\ 255 * (y[1] * x[2] - x[1] * y[2]) <= x[2] * y[2]

\* C17: for every float32 element x in [0, 1], remounting the tensor to
\* uint8 and the result back to float32 yields a value within 1/255 of x.
\* The step is the remount back to float32 (slot p) of the tensor that the
\* remount recorded in slot q made from the float32 source, with the
\* element as that remount stored it.
C17_RoundTripWithin255th ==
    [][\A p, q \in Procs :
        (/\ p # q
         /\ FieldStep(p, "remount")
         /\ proc'[p].ret.status = "returned"
         /\ proc'[p].ret.value.dtype = "float32"
         /\ HoldsTensor(q) /\ proc[q].op = "remount"
         /\ proc[q].request.data.dtype = "float32"
         /\ proc[q].ret.value.dtype = "uint8"
         /\ proc'[p].request.data = proc[q].ret.value)
            => \A i \in 1..Len(proc[q].request.data.data.elements) :
                  LET x == proc[q].request.data.data.elements[i]
                  IN  (/\ RatLeq(Zero, x) /\ RatLeq(x, One)
                       /\ proc[q].ret.value.data.elements[i]
                             = Rat(MathRound(RatScale(x, 255)), 1))
                          => WithinOne255th(
                                 proc'[p].ret.value.data.elements[i], x)
      ]_vars

\* The round trip of a tensor holding 1/2 has returned: 1/2 became 128 and
\* then 128/255.
C17_Witness ==
    \E p, q \in Procs :
        /\ p # q
        /\ HoldsTensor(p) /\ proc[p].op = "remount"
        /\ HoldsTensor(q) /\ proc[q].op = "remount"
        /\ proc[q].request.data.dtype = "float32"
        /\ proc[q].ret.value.dtype = "uint8"
        /\ proc[p].request.data = proc[q].ret.value
        /\ proc[p].ret.value.dtype = "float32"
        /\ \E i \in 1..TensorLen :
              /\ proc[q].request.data.data.elements[i] = Rat(1, 2)
              /\ proc[q].ret.value.data.elements[i] = Rat(128, 1)
              /\ proc[p].ret.value.data.elements[i] = Rat(128, 255)

\* Slot p holds the strategy optimizeQuantization returned.
HoldsStrategy(p) ==
    proc[p].op = "optimizeQuantization" /\ proc[p].pc = "done"

\* C18 as stated: optimizeQuantization of an intent of high precision
\* returns bits 32, method adaptive, preserveAccuracy true, for every domain
\* and every value of realtime.
C18_HighPrecisionAlways32 ==
    \A p \in Procs :
        (HoldsStrategy(p) /\ proc[p].request.intent.precision = "high")
            => proc[p].ret.value
                  = [bits |-> 32, method |-> "adaptive", preserveAccuracy |-> TRUE]

\* C18 amended: the same for every domain and value of realtime but domain
\* vision with realtime true, where the strategy has bits 8 and method
\* linear.
C18_HighPrecision32UnlessRealtimeVision ==
    \A p \in Procs :
        (HoldsStrategy(p) /\ proc[p].request.intent.precision = "high")
            => IF /\ proc[p].request.intent.domain = <<"v", "i", "s", "i", "o", "n">>
                  /\ proc[p].request.intent.realtime
               THEN /\ proc[p].ret.value.bits = 8
                    /\ proc[p].ret.value.method = "linear"
               ELSE proc[p].ret.value
                       = [bits |-> 32, method |-> "adaptive",
                          preserveAccuracy |-> TRUE]

\* A realtime nlp intent of high precision got 32 bits.
C18_Witness ==
    /\ HoldsStrategy(1)
    /\ proc[1].request.intent.precision = "high"
    /\ proc[1].request.intent.realtime
    /\ proc[1].request.intent.domain = <<"n", "l", "p">>
    /\ proc[1].ret.value.bits = 32

\* C19: every strategy optimizeQuantization returns is one of (32,
\* adaptive, true), (16, dynamic, true), (8, linear, false), and it is (16,
\* dynamic, true) exactly when precision is medium and realtime is false.
C19_ThreeStrategies ==
    \A p \in Procs :
        HoldsStrategy(p)
            => /\ proc[p].ret.value \in
                    { [bits |-> 32, method |-> "adaptive", preserveAccuracy |-> TRUE],
                      [bits |-> 16, method |-> "dynamic", preserveAccuracy |-> TRUE],
                      [bits |-> 8, method |-> "linear", preserveAccuracy |-> FALSE] }
               /\ proc[p].ret.value
                     = [bits |-> 16, method |-> "dynamic", preserveAccuracy |-> TRUE]
                  <=> (/\ proc[p].request.intent.precision = "medium"
                       /\ ~proc[p].request.intent.realtime)

\* The non-empty '/'-separated segments of a path: the places where one
\* starts.
NonEmptySegments(path) ==
    Cardinality({ i \in 1..Len(path) :
                    path[i] # "/" /\ (i = 1 \/ path[i - 1] = "/") })

\* C20: parsePath fails with the invalid-path error exactly when the path
\* has fewer than 2 non-empty segments, and otherwise returns an intent
\* whose complexity is an integer from 1 to 10; mount and remount fail on
\* the same paths, and a failing one leaves the mount table unchanged.
C20_InvalidPathExactly ==
    [][\A p \in Procs :
        /\ FieldStep(p, "parsePath")
              => /\ proc'[p].ret.status = "thrown"
                       <=> NonEmptySegments(proc'[p].request.path) < 2
                 /\ proc'[p].ret.status = "returned"
                       => proc'[p].ret.value.complexity \in 1..10
        /\ (FieldStep(p, "mount") \/ FieldStep(p, "remount"))
              => /\ proc'[p].ret.status = "thrown"
                       <=> NonEmptySegments(proc'[p].request.path) < 2
                 /\ proc'[p].ret.status = "thrown"
                       => mountedTensors' = mountedTensors
      ]_vars

\* A remount to a path of one segment has failed on a field with a mounted
\* tensor.
C20_Witness ==
    /\ proc[1].op = "remount"
    /\ proc[1].pc = "done"
    /\ proc[1].ret.status = "thrown"
    /\ NonEmptySegments(proc[1].request.path) = 1
    /\ DOMAIN mountedTensors # {}

\* Slot p holds the intent parsePath returned.
HoldsIntent(p) ==
    /\ proc[p].op = "parsePath"
    /\ proc[p].pc = "done"
    /\ proc[p].ret.status = "returned"

\* The task of a path and its modifiers: the segments from the task on.
TaskAndModifiers(path) ==
    LET parts == SplitPath(path)
        first == IF Len(parts) >= 3 /\ parts[1] \in {<<"m", "o", "d", "e", "l", "s">>, <<"i", "n", "f", "e", "r", "e", "n", "c", "e">>}
                 THEN 3 ELSE 2
    IN  { parts[i] : i \in first..Len(parts) }

\* One of the words matches (contains) one of the keywords.
Matches(words, keywords) ==
    \E w \in words, k \in keywords : includes(w, k)

\* C21: the intent parsePath returns has precision high if the task or any
\* modifier matches 'precise' or 'high', otherwise low if the task or any
\* modifier matches 'fast' or 'low', otherwise medium; and realtime true
\* exactly when the task or any modifier matches 'realtime' or 'live'.
C21_KeywordsUniform ==
    \A p \in Procs :
        HoldsIntent(p)
            => LET words == TaskAndModifiers(proc[p].request.path)
               IN  /\ proc[p].ret.value.precision =
                          IF Matches(words, {<<"p", "r", "e", "c", "i", "s", "e">>, <<"h", "i", "g", "h">>}) THEN "high"
                          ELSE IF Matches(words, {<<"f", "a", "s", "t">>, <<"l", "o", "w">>}) THEN "low"
                          ELSE "medium"
                   /\ proc[p].ret.value.realtime
                          <=> Matches(words, {<<"r", "e", "a", "l", "t", "i", "m", "e">>, <<"l", "i", "v", "e">>})

\* Slot p holds the architecture collapseQuantumField returned.
HoldsArchitecture(p) ==
    proc[p].op = "collapseQuantumField" /\ proc[p].pc = "done"

C23_NlpIsTransformer ==
    \A p \in Procs :
        (HoldsTensor(p) /\ parsePath(proc[p].request.path).domain = <<"n", "l", "p">>)
            => /\ proc[p].ret.value.architecture.type = "transformer"
               /\ mountedTensors[proc[p].request.path].architecture.type
                     = "transformer"

\* The cycle of slot p has started: Observe is done.
CycleStarted(p) ==
    /\ proc[p].op = "processIntent"
    /\ proc[p].pc \notin {"idle", "done"}

\* The cycle of slot p has executed Adapt: the call holds its adaptations.
Adapted(p) ==
    /\ proc[p].op = "processIntent"
    /\ proc[p].pc = "return"
    /\ "adaptations" \in DOMAIN proc[p].result

\* The call of slot p was rejected by the recursion check of the spawn its
\* Act stage attempted.
SpawnRejected(p) ==
    /\ proc[p].op = "processIntent"
    /\ proc[p].pc = "done"
    /\ proc[p].ret = Rejected("RecursionLimit")

MemorySize(rag) == Len(rag.embeddings)

\* The step ends the Orient stage of slot p with a window that has crossed
\* the limit: the eviction fires.
EvictionFires(p) ==
    /\ proc[p].op = "processIntent"
    /\ \/ proc[p].pc = "orient" /\ proc[p].context = <<>>
             /\ Len(ragMemory.contextWindow) > ContextWindowLimit
       \/ proc[p].pc = "insert" /\ proc[p].i = Len(proc[p].context)
             /\ Len(ragMemory.contextWindow) + 1 > ContextWindowLimit
    /\ proc'[p].pc = "decide"

\* C25: with calls made one after the other, the memory store size never
\* decreases in a step unless that step is an eviction fired because the
\* context window crossed 100 items; no step of a call made with an empty
\* context decreases it, so the size after a call is never below the size
\* after the call before it unless an eviction fired in between.
C25_MemorySizeMonotone ==
    [][/\ MemorySize(ragMemory') < MemorySize(ragMemory)
            => \E p \in Procs : EvictionFires(p)
       /\ \A p \in Procs :
            (proc[p].op = "processIntent" /\ InFlight(p)
                /\ proc[p].context = <<>>)
                => MemorySize(ragMemory') >= MemorySize(ragMemory)
      ]_vars

\* The second of two successful calls, made with an empty context after a
\* call whose 120 context strings fired the eviction, has completed; the
\* store holds the 50 kept context embeddings and what the calls added.
C25_Witness ==
    /\ Done(1, "processIntent")
    /\ proc[1].call = 2
    /\ proc[1].ret.status = "fulfilled"
    /\ proc[1].context = <<>>
    /\ Len(ragMemory.contextWindow) = ContextWindowKeep
    /\ MemorySize(ragMemory) > ContextWindowKeep

\* C26: after construction no step of an agent operation (processIntent,
\* spawnRepository succeeding or failing, retrieveFromRAG,
\* performSelfModification) adds, removes or replaces a mount-table entry:
\* the mounted paths and their tensors stay those the constructor mounted.
C26_MountTableFrozen ==
    [][/\ mountedTensors' = mountedTensors
       /\ DOMAIN mountedTensors' = SeqRange(PersonaPaths)
       /\ \E k \in 1..MaxSeed : mountedTensors' = InitialMounts(k, 0)
      ]_vars

\* A rejected spawnRepository and a performSelfModification that changed the
\* traits have both completed, and the five tensors of the constructor are
\* mounted.
C26_Witness ==
    /\ \E p \in Procs :
          /\ Done(p, "spawnRepository")
          /\ proc[p].ret.status = "rejected"
    /\ \E p \in Procs :
          /\ Done(p, "performSelfModification")
          /\ proc[p].ret.status = "fulfilled"
    /\ traits # DefaultTraits
    /\ Cardinality(DOMAIN mountedTensors) = 5

\* Slot p holds what processIntentWithPersona returned (or its error).
Wrapped(p) ==
    proc[p].op = "processIntentWithPersona" /\ proc[p].pc = "done"

\* The result is the fallback of the catch block.
IsFallback(result) ==
    /\ "fallback" \in DOMAIN result.cognitiveState
    /\ result.cognitiveState.fallback = TRUE

\* C27: processIntentWithPersona never raises.  When the processIntent of
\* the shared agent raises, the wrapper returns a result whose response
\* mentions standard processing and whose cognitiveState has fallback = true
\* and the error's message; and every call with a valid intent on the same
\* shared agent, also after such an error, returns the agent's result
\* without fallback.
C27_WrapperNeverRaises ==
    /\ [](\A p \in Procs :
            Wrapped(p)
               => /\ proc[p].ret.status = "fulfilled"
                  /\ IntentTable[proc[p].intent] # NullIntent
                        => /\ ~IsFallback(proc[p].ret.value)
                           /\ proc[p].ret.value.response.kind
                                 \in {"direct", "spawn"})
    /\ [][\A p \in Procs :
            (/\ Done(p, "processIntent")
             /\ proc[p].ret.status = "rejected"
             /\ proc'[p] # proc[p])
               => /\ Wrapped(p)'
                  /\ proc'[p].ret.status = "fulfilled"
                  /\ IsFallback(proc'[p].ret.value)
                  /\ proc'[p].ret.value.response.kind = "text"
                  /\ includes(proc'[p].ret.value.response.text,
                              <<"s", "t", "a", "n", "d", "a", "r", "d", " ", "p", "r", "o", "c", "e", "s", "s", "i", "n", "g">>)
                  /\ proc'[p].ret.value.cognitiveState.error
                        = proc[p].ret.error
                  /\ agentState' = agentState]_vars
    /\ [][\A p \in Procs :
            (Done(p, "processIntent") /\ proc[p].ret.status = "fulfilled"
                /\ proc'[p] # proc[p])
               => /\ Wrapped(p)'
                  /\ ~IsFallback(proc'[p].ret.value)]_vars

\* The first call, with a null intent, returned the fallback; the second,
\* with a request that spawns, returned a response without fallback.
C27_Witness ==
    /\ Wrapped(1)
    /\ proc[1].call = 1
    /\ IntentTable[proc[1].intent] = NullIntent
    /\ IsFallback(proc[1].ret.value)
    /\ Wrapped(2)
    /\ proc[2].call = 2
    /\ ~IsFallback(proc[2].ret.value)
    /\ proc[2].ret.value.response.kind = "spawn"
    /\ proc[2].ret.value.cognitiveState.personaState.spawnedRepoCount = 1

\* The window the eviction of slot p's step finds: the stored window, with
\* the item the step pushes first when it is the last iteration of the loop.
WindowAtEviction(p) ==
    IF proc[p].pc = "insert"
    THEN Append(ragMemory.contextWindow, TextKey(proc[p].context[proc[p].i]))
    ELSE ragMemory.contextWindow

\* C28: a step in which the eviction fires, on a window of length L > 100,
\* removes exactly the L - 50 oldest keys from the window and leaves the 50
\* most recently inserted ones in their insertion order; in the same step
\* the embedding of every removed key is deleted and no other embedding is,
\* so after the step no removed key that is absent from the window has an
\* embedding.
C28_EvictionIndivisible ==
    [][\A p \in Procs :
        EvictionFires(p)
            => LET w == WindowAtEviction(p)
                   L == Len(w)
                   removed == { w[i] : i \in 1..(L - ContextWindowKeep) }
               IN  /\ L > ContextWindowLimit
                   /\ Len(ragMemory'.contextWindow) = ContextWindowKeep
                   /\ \A i \in 1..ContextWindowKeep :
                         ragMemory'.contextWindow[i]
                             = w[L - ContextWindowKeep + i]
                   /\ \A k \in removed : ~MapHas(ragMemory'.embeddings, k)
                   /\ \A k \in MapKeys(ragMemory.embeddings) \ removed :
                         MapHas(ragMemory'.embeddings, k)
                   /\ \A k \in removed :
                         k \notin SeqRange(ragMemory'.contextWindow)
                             => ~MapHas(ragMemory'.embeddings, k)
      ]_vars

\* The eviction has fired on the 120 distinct strings of one call: the
\* window holds the last 50 in order, and the oldest has no embedding.
C28_Witness ==
    /\ proc[1].op = "processIntent"
    /\ proc[1].pc = "decide"
    /\ Len(proc[1].context) = 120
    /\ ragMemory.contextWindow = [i \in 1..ContextWindowKeep |-> TextKey(70 + i)]
    /\ ~MapHas(ragMemory.embeddings, TextKey(1))
    /\ MapHas(ragMemory.embeddings, TextKey(71))

\* How far the cycle of a processIntent call has come: Observe written (1),
\* Orient written (2), Decide written (3), Act written (4), Adapt done (5).
StagesDone(pc) ==
    CASE pc = "orient" -> 1
      [] pc \in {"insert", "decide"} -> 2
      [] pc \in {"act", "rag_ext", "register", "self_model", "rag_update",
                 "act_end"} -> 3
      [] pc = "adapt" -> 4
      [] pc = "return" -> 5
      [] OTHER -> 0

\* The stage records written so far are those of the call in slot p.
RecordsBelong(p, n) ==
    /\ n >= 1 => /\ oodaLoop.observe # Null
                 /\ oodaLoop.observe.intent = proc[p].intent
                 /\ oodaLoop.observe.context = proc[p].context
                 /\ oodaLoop.observe.cognitiveIntent
                       = parseIntentToCognitive(IntentTable[proc[p].intent])
    /\ n >= 2 => /\ oodaLoop.orient # Null
                 /\ oodaLoop.orient.cognitiveIntent
                       = oodaLoop.observe.cognitiveIntent
                 /\ oodaLoop.orient.contextEmbeddings = Len(proc[p].context)
    /\ n >= 3 => /\ oodaLoop.decide # Null
                 /\ oodaLoop.decide.complexity
                       = oodaLoop.observe.cognitiveIntent.complexity
    /\ n >= 4 => /\ oodaLoop.act # Null
                 /\ (oodaLoop.act.spawnedRepos # Undefined)
                       = oodaLoop.decide.shouldSpawnRepo

\* C29: within one processIntent call the stage records are written in the
\* order Observe, Orient, Decide, Act, each in its own step, and Adapt
\* follows; all four records are null before the first call; and when a
\* call made on its own returns, all four records are non-null and are
\* those of that call, whatever the previous cycle left.
C29_StageOrder ==
    /\ [](calls = 0 => oodaLoop = InitialOODALoop)
    /\ [](\A p \in Procs :
            proc[p].op = "processIntent"
               => /\ InFlight(p) => RecordsBelong(p, StagesDone(proc[p].pc))
                  /\ (proc[p].pc = "done" /\ proc[p].ret.status = "fulfilled")
                        => /\ RecordsBelong(p, 4)
                           /\ oodaLoop.act.response
                                 = proc[p].ret.value.response)
    /\ [][\A p \in Procs :
            (proc[p].op = "processIntent" /\ InFlight(p))
               => /\ StagesDone(proc'[p].pc) \in
                        { StagesDone(proc[p].pc), StagesDone(proc[p].pc) + 1, 0 }
                  /\ StagesDone(proc'[p].pc) = 0
                        => StagesDone(proc[p].pc) \in {3, 5}
                  /\ oodaLoop'.observe = oodaLoop.observe
                  /\ oodaLoop'.orient # oodaLoop.orient
                        => proc[p].pc = "orient"
                  /\ oodaLoop'.decide # oodaLoop.decide
                        => proc[p].pc = "decide"
                  /\ oodaLoop'.act # oodaLoop.act
                        => proc[p].pc = "act_end"
                  /\ traits' # traits => proc[p].pc = "adapt"]_vars

\* The second call, answered directly, has returned after a first call that
\* spawned a repository: the four records are those of the second.
C29_Witness ==
    /\ Done(1, "processIntent")
    /\ proc[1].call = 2
    /\ proc[1].ret.status = "fulfilled"
    /\ spawnedRepos # <<>>
    /\ oodaLoop.decide.shouldSpawnRepo = FALSE
    /\ oodaLoop.act.response.kind = "direct"
    /\ RecordsBelong(1, 4)

\* Slot p holds a decision of Decide that carries a spawn request.
HoldsSpawnRequest(p) ==
    /\ proc[p].op = "processIntent"
    /\ proc[p].decision # Null
    /\ proc[p].decision.spawnRequests # <<>>

\* C30: the request built by Decide has architecture 'ai-agent' if the
\* domain is 'ai', else 'fullstack' if the complexity is above 7, else
\* 'backend' if the task contains 'api' or 'server', else 'frontend'; its
\* technology list starts with 'typescript', 'node.js', holds 'react' and
\* 'vite' exactly for the domain 'development' and 'python', 'pytorch',
\* 'transformers' exactly for the domain 'ai'.
C30_RequestInference ==
    \A p \in Procs :
        HoldsSpawnRequest(p)
            => LET ci == proc[p].ci
                   request == proc[p].decision.spawnRequests[1]
                   techs == SeqRange(request.technologies)
               IN  /\ Len(proc[p].decision.spawnRequests) = 1
                   /\ oodaLoop.decide # Null
                   /\ request.architecture =
                          IF ci.domain = "ai" THEN "ai-agent"
                          ELSE IF ci.complexity > 7 THEN "fullstack"
                          ELSE IF \/ includes(TaskChars(ci.task), <<"a", "p", "i">>)
                                  \/ includes(TaskChars(ci.task), <<"s", "e", "r", "v", "e", "r">>)
                               THEN "backend"
                          ELSE "frontend"
                   /\ SubSeq(request.technologies, 1, 2)
                         = <<"typescript", "node.js">>
                   /\ {"react", "vite"} \subseteq techs
                         <=> ci.domain = "development"
                   /\ {"react", "vite"} \cap techs # {}
                         => ci.domain = "development"
                   /\ {"python", "pytorch", "transformers"} \subseteq techs
                         <=> ci.domain = "ai"
                   /\ {"python", "pytorch", "transformers"} \cap techs # {}
                         => ci.domain = "ai"
                   /\ techs \subseteq {"typescript", "node.js", "react", "vite",
                                       "python", "pytorch", "transformers"}

\* Decide has built a request for an 'ai' intent of complexity 10: tagged
\* 'ai-agent', with the Python technologies and without React.
C30_Witness ==
    /\ HoldsSpawnRequest(1)
    /\ proc[1].pc = "act"
    /\ proc[1].ci.domain = "ai"
    /\ proc[1].ci.complexity = 10
    /\ proc[1].decision.spawnRequests[1].architecture = "ai-agent"
    /\ proc[1].decision.spawnRequests[1].technologies
          = <<"typescript", "node.js", "python", "pytorch", "transformers">>

\* The step is the one in which the performSelfModification of slot p makes
\* its updates.
SelfModificationStep(p) ==
    /\ proc[p].op = "performSelfModification"
    /\ proc[p].pc = "evolve"
    /\ proc'[p].pc = "return"

\* C31: every call of performSelfModification multiplies
\* traits.adaptationRate, by 1.1 when the composite success metric is above
\* 0.8 and by 1.2 otherwise.
C31_AdaptationRateMultiplied ==
    [][\A p \in Procs :
        SelfModificationStep(p)
            => traits'.adaptationRate =
                   IF RatLess(Rat(8, 10), analyzePerformance.successRate)
                   THEN RatMul(traits.adaptationRate, Rat(11, 10))
                   ELSE RatMul(traits.adaptationRate, Rat(12, 10))
      ]_vars

\* C32: the semantic graph is only extended: no step, and in particular no
\* eviction from the context window, removes a key of the graph or a label
\* from the list a key maps to.
C32_GraphOnlyExtended ==
    [][\A k \in MapKeys(ragMemory.semanticGraph) :
          /\ MapHas(ragMemory'.semanticGraph, k)
          /\ SeqRange(MapGet(ragMemory.semanticGraph, k))
                \subseteq SeqRange(MapGet(ragMemory'.semanticGraph, k))
      ]_vars

\* The call of slot p has raised.
Raised(p) ==
    /\ Done(p, "processIntent")
    /\ proc[p].ret.status = "rejected"

\* C33: when a processIntent call raises, the agent state is the same as
\* before the call.  Stated for the first call made on an agent: after it
\* has raised, the OODA stage records, the context window, the embedding
\* mapping and the registry are those of the constructor, and the traits
\* are those the agent was constructed with.
C33_RaisedCallChangesNothing ==
    \A p \in Procs :
        (Raised(p) /\ calls = 1)
            => /\ oodaLoop = InitialOODALoop
               /\ ragMemory = InitialRAGMemory
               /\ spawnedRepos = <<>>
               /\ traits \in TraitConfigs

\* C34: whenever the processIntent calls made so far have all completed,
\* every key of the context window has an embedding in the mapping, also
\* when a context string was supplied more than once and one of its older
\* occurrences has been evicted.
C34_WindowKeysHaveEmbeddings ==
    (\A p \in Procs : Free(p))
        => \A k \in SeqRange(ragMemory.contextWindow) :
               MapHas(ragMemory.embeddings, k)

\* The repository ids that occur anywhere in the agent's state.
KnownRepoIds ==
    { <<k[2], k[3]>> : k \in { e \in MapKeys(ragMemory.embeddings) :
                                 e[1] = "repo" } }
    \cup MapKeys(ragMemory.semanticGraph)
    \cup MapKeys(spawnedRepos)

\* A retrieveFromRAG call is suspended and will read the memory when it is
\* resumed: what it reads is the current state.
ReaderWaiting == \E q \in Procs : proc[q].pc = "scan"

\* C35: in every state a concurrent reader observes, a repository id has a
\* 'repo:<id>' embedding and a semantic-graph entry exactly when it is a key
\* of the spawned-repo registry.
C35_SpawnWritesVisibleTogether ==
    ReaderWaiting
        => \A id \in KnownRepoIds :
               (/\ MapHas(ragMemory.embeddings, RepoKey(id))
                /\ MapHas(ragMemory.semanticGraph, id))
               <=> MapHas(spawnedRepos, id)

\* Every slot holds a processIntent call that has returned its result.
AllCompleted ==
    \A p \in Procs : Done(p, "processIntent") /\ proc[p].ret.status = "fulfilled"

\* C36: when the processIntent calls started on the agent have all
\* completed and none is in progress, the four stored stage records
\* (observe, orient, decide, act) are those of one and the same call.
C36_RecordsOfOneCall ==
    AllCompleted => \E p \in Procs : RecordsBelong(p, 4)

\* C37: every request in the spawned-repo registry has a recursionLevel
\* strictly below traits.recursionDepth, and no step of any operation
\* changes traits.recursionDepth.
C37_RegisteredBelowDepth ==
    /\ [](\A id \in MapKeys(spawnedRepos) :
            MapGet(spawnedRepos, id).recursionLevel < traits.recursionDepth)
    /\ [][traits'.recursionDepth = traits.recursionDepth]_vars

\* A request at the recursion depth has been rejected and left no entry,
\* while the registry holds a request below it and Adapt has changed the
\* traits.
C37_Witness ==
    /\ \E p \in Procs : /\ Done(p, "spawnRepository")
                        /\ proc[p].ret.status = "rejected"
                        /\ proc[p].request.recursionLevel = traits.recursionDepth
    /\ spawnedRepos # <<>>
    /\ \A id \in MapKeys(spawnedRepos) : MapGet(spawnedRepos, id).recursionLevel = 0
    /\ traits # DefaultTraits

\* C38: no request spawned through processIntent is tagged 'backend': the
\* classification held by a call has task 'respond', 'creation' or
\* 'analysis', every request built by Decide and every request registered
\* is tagged 'ai-agent', 'fullstack' or 'frontend', and the tag of a built
\* request is 'frontend' exactly when the domain is not 'ai' and the
\* complexity is 7.
C38_NoBackendRequest ==
    /\ \A p \in Procs :
          (proc[p].op = "processIntent" /\ proc[p].ci # Null)
             => proc[p].ci.task \in {"respond", "creation", "analysis"}
    /\ \A p \in Procs :
          HoldsSpawnRequest(p)
             => \A i \in 1..Len(proc[p].decision.spawnRequests) :
                  LET request == proc[p].decision.spawnRequests[i]
                  IN  /\ request.architecture \in {"ai-agent", "fullstack", "frontend"}
                      /\ request.architecture = "frontend"
                            <=> (proc[p].ci.domain # "ai" /\ proc[p].ci.complexity = 7)
    /\ \A id \in MapKeys(spawnedRepos) :
          MapGet(spawnedRepos, id).architecture \in {"ai-agent", "fullstack", "frontend"}

\* The request of a 'creation' intent of complexity 7 in the 'general'
\* domain has been registered with the tag 'frontend'.
C38_Witness ==
    /\ HoldsSpawnRequest(1)
    /\ proc[1].pc = "self_model"
    /\ proc[1].ci.task = "creation"
    /\ proc[1].ci.domain = "general"
    /\ proc[1].ci.complexity = 7
    /\ \E id \in MapKeys(spawnedRepos) :
          MapGet(spawnedRepos, id).architecture = "frontend"

\* The step is a remount in slot p, to the dtype `to`, of the tensor that
\* the remount recorded in slot q made from a source of that same dtype and
\* returned with the dtype `via`.
RoundTripStep(p, q, to, via) ==
    /\ p # q
    /\ FieldStep(p, "remount")
    /\ proc'[p].ret.status = "returned"
    /\ proc'[p].ret.value.dtype = to
    /\ HoldsTensor(q) /\ proc[q].op = "remount"
    /\ proc[q].request.data.dtype = to
    /\ proc[q].ret.value.dtype = via
    /\ proc'[p].request.data = proc[q].ret.value

\* One element through both conversions.
ThereAndBack(from, via, x) ==
    ConvertElement(via, from, ConvertElement(from, via, x))

\* C39: for every uint8 element v in 0..255, the remount to uint16 stores
\* v * 257, which is at most 65535, and the remount of that result back to
\* uint8 returns exactly v; in the opposite round trip, uint16 to uint8 and
\* back, the element returned equals the original w exactly when w is a
\* multiple of 257.  Stated on the element conversion for every v and
\* every w in 0..65535, and on the remounts made of the tensors the caller
\* holds (with the element as the first remount stored it).
C39_IntegerRoundTrips ==
    /\ [](calls = 0 =>
            /\ \A v \in 0..255 :
                  /\ ConvertElement("uint8", "uint16", Rat(v, 1)) = Rat(v * 257, 1)
                  /\ v * 257 <= 65535
                  /\ ThereAndBack("uint8", "uint16", Rat(v, 1)) = Rat(v, 1)
            /\ \A w \in 0..65535 :
                  ThereAndBack("uint16", "uint8", Rat(w, 1)) = Rat(w, 1)
                      <=> w % 257 = 0)
    /\ [][\A q \in Procs :
            (FieldStep(q, "remount") /\ proc'[q].ret.status = "returned")
               => \A i \in 1..Len(proc'[q].request.data.data.elements) :
                     LET x == proc'[q].request.data.data.elements[i]
                         y == proc'[q].ret.value.data.elements[i]
                     IN  /\ (/\ proc'[q].request.data.dtype = "uint8"
                             /\ proc'[q].ret.value.dtype = "uint16")
                               => y = Rat(x[1] * 257, 1) /\ y[1] <= 65535
                         /\ (/\ proc'[q].request.data.dtype = "uint16"
                             /\ proc'[q].ret.value.dtype = "uint8")
                               => y = Rat(MathRound(Rat(x[1], 257)), 1)
      ]_vars
    /\ [][\A p, q \in Procs :
            /\ RoundTripStep(p, q, "uint8", "uint16")
                  => \A i \in 1..Len(proc[q].request.data.data.elements) :
                        LET v == proc[q].request.data.data.elements[i]
                        IN  proc[q].ret.value.data.elements[i] = Rat(v[1] * 257, 1)
                               => proc'[p].ret.value.data.elements[i] = v
            /\ RoundTripStep(p, q, "uint16", "uint8")
                  => \A i \in 1..Len(proc[q].request.data.data.elements) :
                        LET w == proc[q].request.data.data.elements[i]
                        IN  proc[q].ret.value.data.elements[i]
                                  = Rat(MathRound(Rat(w[1], 257)), 1)
                               => (proc'[p].ret.value.data.elements[i] = w
                                      <=> w[1] % 257 = 0)
      ]_vars

\* Both round trips have been made on a written element: 200 became 51400
\* and 200 again, and in another run 51401 became 200 and then 51400.
C39_Witness ==
    \E p, q \in Procs :
        /\ p # q
        /\ HoldsTensor(p) /\ proc[p].op = "remount"
        /\ HoldsTensor(q) /\ proc[q].op = "remount"
        /\ proc[p].request.data = proc[q].ret.value
        /\ proc[q].request.data.dtype = "uint8"
        /\ proc[q].request.data.data.elements[1] = Rat(200, 1)
        /\ proc[q].ret.value.data.elements[1] = Rat(51400, 1)
        /\ proc[p].ret.value.dtype = "uint8"
        /\ proc[p].ret.value.data.elements[1] = Rat(200, 1)

\* The step is one of the retrieveFromRAG call in slot p: the call up to
\* its await, or the scan and the return.
RetrieveStep(p) ==
    \/ /\ Free(p)
       /\ proc'[p].op = "retrieveFromRAG"
       /\ proc'[p].call = calls + 1
    \/ /\ proc[p].op = "retrieveFromRAG"
       /\ proc[p].pc = "scan"
       /\ proc'[p].pc = "done"

\* C40: retrieveFromRAG is read-only: each of its steps, for every query
\* embedding and maxResults, leaves the embedding mapping, the context
\* window, the semantic graph, the registry, the OODA records, the traits
\* and the mount table unchanged, and leaves every other call as it was,
\* a processIntent suspended between two of its steps included.
C40_RetrievalReadOnly ==
    [][\A p \in Procs :
        RetrieveStep(p)
            => /\ ragMemory' = ragMemory
               /\ spawnedRepos' = spawnedRepos
               /\ oodaLoop' = oodaLoop
               /\ traits' = traits
               /\ mountedTensors' = mountedTensors
               /\ \A q \in Procs \ {p} : proc'[q] = proc[q]
      ]_vars

\* A retrieval has returned results while a processIntent call that has
\* written its Decide record is suspended in its Act stage.
C40_Witness ==
    \E p, q \in Procs :
        /\ Done(p, "retrieveFromRAG")
        /\ proc[p].ret.status = "fulfilled"
        /\ proc[p].ret.value.results # <<>>
        /\ proc[q].op = "processIntent"
        /\ proc[q].pc \in {"rag_ext", "register", "self_model", "rag_update"}
        /\ oodaLoop.decide # Null
        /\ oodaLoop.act = Null

=============================================================================
